---- MODULE Spec2Model ----
(***************************************************************************)
(* Model of the NDT test correlator (parser.NDTParser) and of the task     *)
(* loop that drives it (task.Task.ProcessAllTests).                        *)
(*                                                                         *)
(* File names are sequences of tokens (date, "T", time, "Z_", address,     *)
(* ".", suffix and an optional ".gz"), so that the regular expressions of  *)
(* ParseNDTFileName, the `fn + ".gz"` comparisons and strings.HasSuffix    *)
(* are computed on the name and not assumed.  A payload ([]byte) is kept   *)
(* as its length together with the two header fields that decide what the  *)
(* snapshot-log decoder makes of it.                                       *)
(***************************************************************************)
EXTENDS Integers, Sequences, FiniteSets, TLC

\* ------------------------------------------------------------------ bounds
\* Largest number of NextTest results one task delivers before EOF.
MaxFiles == 4

\* --------------------------------------------------------------- constants
MAX_NUM_SNAPSHOTS == 2800
SizeCap == 10 * 1024 * 1024
SmallSize == 16 * 1024
TinySize == 4096

NIL == [nil |-> TRUE]
NoErr == ""

\* ------------------------------------------------------------- file names
DirToks == {"2017/05/01/"}
DateToks == {"20170501", "20170502"}
\* Tokens the timeField pattern accepts; the last one is refused by time.Parse.
ClockToks == {"00:00:01.1", "00:00:02.2", "29:00:00.0"}
BadClockToks == {"29:00:00.0"}
\* Tokens the suffix pattern [a-z2].* accepts.
SuffixToks == {"c2s_snaplog", "s2c_snaplog", "meta", "c2s_ndttrace",
               "s2c_ndttrace", "cputime", "xyz"}

Last(s) == s[Len(s)]
HasSuffix(s, tok) == Len(s) > 0 /\ Last(s) = tok

\* The body of a test file name once the optional date directory is removed.
StripDir(path) ==
    IF Len(path) > 0 /\ Head(path) \in DirToks THEN Tail(path) ELSE path

MatchBody(b, n) ==
    /\ Len(b) = n
    /\ b[1] \in DateToks
    /\ b[2] = "T"
    /\ b[3] \in ClockToks
    /\ b[4] = "Z_"
    /\ b[6] = "."
    /\ b[7] \in SuffixToks

gzTestFilePattern(path) ==
    LET b == StripDir(path) IN MatchBody(b, 8) /\ b[8] = ".gz"

testFilePattern(path) ==
    MatchBody(StripDir(path), 7)

datePattern(path) == \E i \in 1..Len(path) : path[i] \in DateToks
timePattern(path) ==
    \E i \in 1..Len(path) :
        /\ i >= 2 /\ i < Len(path)
        /\ path[i] \in ClockToks /\ path[i-1] = "T" /\ path[i+1] = "Z_"
endPattern(path) == Len(path) > 0 /\ Last(path) \in SuffixToks

ParseNDTFileName(path) ==
    IF ~ gzTestFilePattern(path) /\ ~ testFilePattern(path)
    THEN [info |-> NIL,
          err |-> IF ~ datePattern(path) THEN "Path should contain yyyymmddT"
                  ELSE IF ~ timePattern(path)
                       THEN "Path should contain Thh:mm:ss.ff...Z_"
                  ELSE IF ~ endPattern(path)
                       THEN "Path should end in .[a-z2].*"
                  ELSE "Invalid test path"]
    ELSE LET b == StripDir(path) IN
         IF b[3] \in BadClockToks
         THEN [info |-> NIL, err |-> "Invalid test path"]
         ELSE [info |-> [DateDir |-> IF Len(b) < Len(path) THEN Head(path) ELSE "",
                         Date |-> b[1],
                         Time |-> b[3],
                         Address |-> b[5],
                         Suffix |-> b[7],
                         Timestamp |-> <<b[1], b[3]>>],
               err |-> NoErr]

\* ---------------------------------------------------------------- payloads
\* len(data), the header length and record length its header declares, and
\* whether its records pass ValidateSnapshots.
Blob(len, hdr, rec) ==
    [len |-> len, headerLen |-> hdr, recordLength |-> rec, valid |-> TRUE]

\* The same payload with a record that does not pass ValidateSnapshots.
Invalid(data) == [data EXCEPT !.valid = FALSE]

\* Mutant: a trailing partial record is dropped instead of refused.
NewSnapLog_truncating(data) ==
    IF \/ data.recordLength <= 0
       \/ data.len < data.headerLen
    THEN [err |-> "FormatError", SnapCount |-> 0, valid |-> FALSE]
    ELSE [err |-> NoErr,
          SnapCount |-> (data.len - data.headerLen) \div data.recordLength,
          valid |-> data.valid]

NewSnapLog(data) ==
    IF \/ data.recordLength <= 0
       \/ data.len < data.headerLen
       \/ (data.len - data.headerLen) % data.recordLength # 0
    THEN [err |-> "FormatError", SnapCount |-> 0, valid |-> FALSE]
    ELSE [err |-> NoErr,
          SnapCount |-> (data.len - data.headerLen) \div data.recordLength,
          valid |-> data.valid]

\* snaplog.ValidateSnapshots(): a check of the records of a parsed log.
ValidateSnapshots(snaplog) ==
    IF snaplog.valid THEN NoErr ELSE "ValidateError"

\* Mutant: the index one past the last record is let through.
Snapshot_offByOne(snaplog, i) ==
    IF 0 <= i /\ i <= snaplog.SnapCount THEN NoErr ELSE "IndexError"

\* snaplog.Snapshot(i): bounds-checked access to record i.
Snapshot(snaplog, i) ==
    IF 0 <= i /\ i < snaplog.SnapCount THEN NoErr ELSE "IndexError"

\* ------------------------------------------------------------ meta record
\* The zero value &MetaFileData{} that handleAnomalies stores.
EmptyMetaFileData == [TestName |-> <<>>, ptr |-> 0]

\* ProcessMetaFile decodes the content of a .meta file into a MetaFileData.
ProcessMetaFile(testName, content, call) == [TestName |-> testName, ptr |-> call]

\* ------------------------------------------------------------ NDTParser
\* The state one ParseAndInsert call works on: the parser's fields
\* (timestamp, c2s, s2c, metaFile), the rows handed to inserter.InsertRow,
\* the metric and log events, the number of the call (the identity of the
\* objects it allocates), the result the inserter gives in this call, and
\* the call whose file started the current timestamp bucket.
NewNDTParser == [timestamp |-> "", c2s |-> NIL, s2c |-> NIL, metaFile |-> NIL]

Inc(s, metric, labels, ptr) ==
    [s EXCEPT !.events = Append(@, [m |-> metric, l |-> labels,
                                    ptr |-> ptr, call |-> s.call])]

\* The two direction constants, kept by name.
CLIENT_TO_SERVER == "CLIENT_TO_SERVER"
SERVER_TO_CLIENT == "SERVER_TO_CLIENT"

DataDirection(testType) ==
    IF testType = "c2s" THEN CLIENT_TO_SERVER
    ELSE IF testType = "s2c" THEN SERVER_TO_CLIENT
    ELSE "unset"

\* The index of the snapshot whose values go into the row.
LastSnapshot(snapCount) ==
    IF snapCount - 1 > MAX_NUM_SNAPSHOTS THEN MAX_NUM_SNAPSHOTS
    ELSE snapCount - 1

\* The number of iterations of the loop that decodes the leading snapshots.
LoopCount(snapCount) ==
    IF snapCount < MAX_NUM_SNAPSHOTS THEN snapCount ELSE MAX_NUM_SNAPSHOTS

\* The top-level keys of the results map getAndInsertValues builds.
RowFields == {"web100_log_entry", "test_id", "task_filename", "log_time",
              "parse_time", "connection_spec"}

\* The row of getAndInsertValues, handed to inserter.InsertRow.
OutputRow(s, snaplog, taskFileName, test, testType) ==
    [fields |-> RowFields,
     test_id |-> test.fn,
     task_filename |-> taskFileName,
     log_time |-> test.info.Timestamp,
     data_direction |-> DataDirection(testType),
     meta |-> s.metaFile,
     snap |-> LastSnapshot(snaplog.SnapCount),
     decodes |-> LoopCount(snaplog.SnapCount) + 1,
     ptr |-> test.ptr,
     call |-> s.call]

\* inserter.InsertRow and the count of its outcome.
InsertRow(s, row, test, testType) ==
    Inc([s EXCEPT !.rows = Append(@, row)],
        IF s.ins # NoErr THEN "ErrorCount" ELSE "TestCount",
        <<testType, IF s.ins # NoErr THEN "insert-err" ELSE "ok">>,
        test.ptr)

\* The warning getAndInsertValues counts when ValidateSnapshots fails.
Validated(s, snaplog, test, testType) ==
    IF ValidateSnapshots(snaplog) # NoErr
    THEN Inc(s, "WarningCount", <<testType, "validate failed">>, test.ptr)
    ELSE s

\* getAndInsertValues from the final snapshot on.
FinalSnapshot(s, snaplog, taskFileName, test, testType) ==
    IF Snapshot(snaplog, LastSnapshot(snaplog.SnapCount)) # NoErr
    THEN Inc(Inc(s, "ErrorCount", <<testType, "final snapshot failure">>, test.ptr),
             "TestCount", <<testType, "final snapshot failure">>, test.ptr)
    ELSE InsertRow(s, OutputRow(s, snaplog, taskFileName, test, testType),
                   test, testType)

\* Mutant: a log that fails ValidateSnapshots is given up.
InsertValues_validateFatal(s, snaplog, taskFileName, test, testType) ==
    IF snaplog.err # NoErr
    THEN Inc(s, "ErrorCount", <<testType, "snaplog failure">>, test.ptr)
    ELSE IF ValidateSnapshots(snaplog) # NoErr
    THEN Validated(s, snaplog, test, testType)
    ELSE FinalSnapshot(s, snaplog, taskFileName, test, testType)

\* getAndInsertValues once NewSnapLog has returned.
InsertValues(s, snaplog, taskFileName, test, testType) ==
    IF snaplog.err # NoErr
    THEN Inc(s, "ErrorCount", <<testType, "snaplog failure">>, test.ptr)
    ELSE FinalSnapshot(Validated(s, snaplog, test, testType),
                       snaplog, taskFileName, test, testType)

\* Mutant: the "parse" gauge is brought down at the end of the function
\* only, which a log that does not parse never reaches.
getAndInsertValues_noDefer(s, taskFileName, test, testType) ==
    IF NewSnapLog(test.data).err # NoErr
    THEN InsertValues(Inc(s, "WorkerState", <<"parse", "inc">>, test.ptr),
                      NewSnapLog(test.data), taskFileName, test, testType)
    ELSE Inc(InsertValues(Inc(s, "WorkerState", <<"parse", "inc">>, test.ptr),
                          NewSnapLog(test.data), taskFileName, test, testType),
             "WorkerState", <<"parse", "dec">>, test.ptr)

getAndInsertValues(s, taskFileName, test, testType) ==
    Inc(InsertValues(Inc(s, "WorkerState", <<"parse", "inc">>, test.ptr),
                     NewSnapLog(test.data), taskFileName, test, testType),
        "WorkerState", <<"parse", "dec">>, test.ptr)

\* The two warnings processTest counts for a payload under the size cap.
SmallWarning(s, test, testType) ==
    IF test.data.len < SmallSize
    THEN Inc(s, "WarningCount", <<testType, "<16KB">>, test.ptr)
    ELSE s

TinyWarning(s, test, testType) ==
    IF test.data.len = TinySize
    THEN Inc(s, "WarningCount", <<testType, "4KB">>, test.ptr)
    ELSE s

SizeWarnings(s, test, testType) ==
    TinyWarning(SmallWarning(s, test, testType), test, testType)

\* Mutant: a payload of exactly the size cap is refused too.
processTest_atCap(s, taskFileName, test, testType) ==
    IF s.metaFile = NIL THEN s
    ELSE IF test.data.len >= SizeCap
    THEN Inc(Inc(s, "ErrorCount", <<testType, ">10MB">>, test.ptr),
             "FileSizeHistogram", <<"huge">>, test.ptr)
    ELSE Inc(getAndInsertValues(
                 Inc(SizeWarnings(Inc(s, "FileSizeHistogram", <<"normal">>, test.ptr),
                                  test, testType),
                     "WorkerState", <<"ndt", "inc">>, test.ptr),
                 taskFileName, test, testType),
             "WorkerState", <<"ndt", "dec">>, test.ptr)

processTest(s, taskFileName, test, testType) ==
    IF s.metaFile = NIL THEN s
    ELSE IF test.data.len > SizeCap
    THEN Inc(Inc(s, "ErrorCount", <<testType, ">10MB">>, test.ptr),
             "FileSizeHistogram", <<"huge">>, test.ptr)
    ELSE Inc(getAndInsertValues(
                 Inc(SizeWarnings(Inc(s, "FileSizeHistogram", <<"normal">>, test.ptr),
                                  test, testType),
                     "WorkerState", <<"ndt", "inc">>, test.ptr),
                 taskFileName, test, testType),
             "WorkerState", <<"ndt", "dec">>, test.ptr)

\* One `if slot != nil { count warning; processTest }` step of handleAnomalies.
AnomalyStep(s, taskFileName, slot, testType, doit, label) ==
    IF doit
    THEN processTest(Inc(s, "WarningCount", <<testType, label>>, slot.ptr),
                     taskFileName, slot, testType)
    ELSE s

\* The closing `if n.s2c == nil && n.c2s == nil` of either branch.
AnomalyTail(s, kind, label) ==
    IF s.s2c = NIL /\ s.c2s = NIL
    THEN Inc(s, "WarningCount", <<kind, label>>, 0)
    ELSE s

\* Mutant: the s2c slot is forgotten when no meta file was seen.
handleNoMeta_skipS2C(s, taskFileName) ==
    AnomalyTail(
        AnomalyStep(s, taskFileName, s.c2s, "c2s", s.c2s # NIL, "no meta"),
        "test", "no meta,c2s,s2c")

\* Mutant: without a meta file the s2c slot is processed as a c2s test.
handleNoMeta_allC2S(s, taskFileName) ==
    AnomalyTail(
        AnomalyStep(
            AnomalyStep(s, taskFileName, s.s2c, "c2s", s.s2c # NIL, "no meta"),
            taskFileName, s.c2s, "c2s", s.c2s # NIL, "no meta"),
        "test", "no meta,c2s,s2c")

\* handleAnomalies when no meta file was seen: n.metaFile holds the
\* placeholder from here on.
handleNoMeta(s, taskFileName) ==
    AnomalyTail(
        AnomalyStep(
            AnomalyStep(s, taskFileName, s.s2c, "s2c", s.s2c # NIL, "no meta"),
            taskFileName, s.c2s, "c2s", s.c2s # NIL, "no meta"),
        "test", "no meta,c2s,s2c")

\* Mutant: a meta file without tests goes unreported.
handleWithMeta_noTail(s, taskFileName) ==
    AnomalyStep(
        AnomalyStep(s, taskFileName, s.s2c, "s2c",
                    s.s2c # NIL /\ ~ HasSuffix(s.s2c.fn, ".gz"), "no .gz file"),
        taskFileName, s.c2s, "c2s",
        s.c2s # NIL /\ ~ HasSuffix(s.c2s.fn, ".gz"), "no .gz file")

\* Mutant: every buffered file is processed again at the rollover, whatever
\* its name.
handleWithMeta_anyName(s, taskFileName) ==
    AnomalyTail(
        AnomalyStep(
            AnomalyStep(s, taskFileName, s.s2c, "s2c", s.s2c # NIL, "no .gz file"),
            taskFileName, s.c2s, "c2s", s.c2s # NIL, "no .gz file"),
        "meta", "no tests")

\* handleAnomalies when a meta file was seen.
handleWithMeta(s, taskFileName) ==
    AnomalyTail(
        AnomalyStep(
            AnomalyStep(s, taskFileName, s.s2c, "s2c",
                        s.s2c # NIL /\ ~ HasSuffix(s.s2c.fn, ".gz"), "no .gz file"),
            taskFileName, s.c2s, "c2s",
            s.c2s # NIL /\ ~ HasSuffix(s.c2s.fn, ".gz"), "no .gz file"),
        "meta", "no tests")

handleAnomalies(s, taskFileName) ==
    IF s.metaFile = NIL
    THEN handleNoMeta([s EXCEPT !.metaFile = EmptyMetaFileData], taskFileName)
    ELSE handleWithMeta(s, taskFileName)

\* Mutant: the rollover keeps the buffered data files.
Rollover_keepSlots(s, info, taskFileName) ==
    IF info.Time # s.timestamp
    THEN [handleAnomalies(s, taskFileName) EXCEPT
              !.timestamp = info.Time,
              !.metaFile = NIL,
              !.bucket = s.call]
    ELSE s

\* Mutant: the rollover keeps the old meta record.
Rollover_keepMeta(s, info, taskFileName) ==
    IF info.Time # s.timestamp
    THEN [handleAnomalies(s, taskFileName) EXCEPT
              !.timestamp = info.Time,
              !.s2c = NIL, !.c2s = NIL,
              !.bucket = s.call]
    ELSE s

\* The rollover of ParseAndInsert: a file of another time field arrives.
Rollover(s, info, taskFileName) ==
    IF info.Time # s.timestamp
    THEN [handleAnomalies(s, taskFileName) EXCEPT
              !.timestamp = info.Time,
              !.s2c = NIL, !.c2s = NIL, !.metaFile = NIL,
              !.bucket = s.call]
    ELSE s

\* Mutant: any second file of a slot is a collision.
Collision_anyBuffered(slot, testName) ==
    slot # NIL

\* The collision test of a data slot: the two names are not the plain and
\* the gzipped copy of one file.
Collision(slot, testName) ==
    /\ slot # NIL
    /\ Append(slot.fn, ".gz") # testName
    /\ Append(testName, ".gz") # slot.fn

CountCollision(s, collides, testType) ==
    IF collides
    THEN Inc(s, "WarningCount", <<testType, "timestamp collision">>, s.call)
    ELSE s

\* Mutant: a data file is processed on arrival whatever its name.
ProcessNow_anyName(s, testName) ==
    s.metaFile # NIL

\* A data file is processed on arrival if the meta file is there and the
\* name ends in .gz.
ProcessNow(s, testName) ==
    s.metaFile # NIL /\ HasSuffix(testName, ".gz")

\* case "c2s_snaplog"
CaseC2S(s, taskFileName, testName, file) ==
    IF ProcessNow(s, testName)
    THEN processTest([CountCollision(s, Collision(s.c2s, testName), "c2s")
                          EXCEPT !.c2s = file],
                     taskFileName, file, "c2s")
    ELSE [CountCollision(s, Collision(s.c2s, testName), "c2s") EXCEPT !.c2s = file]

\* case "s2c_snaplog"
CaseS2C(s, taskFileName, testName, file) ==
    IF ProcessNow(s, testName)
    THEN processTest([CountCollision(s, Collision(s.s2c, testName), "s2c")
                          EXCEPT !.s2c = file],
                     taskFileName, file, "s2c")
    ELSE [CountCollision(s, Collision(s.s2c, testName), "s2c") EXCEPT !.s2c = file]

\* The two `if slot != nil { processTest }` of case "meta".
MetaStep(s, taskFileName, slot, testType) ==
    IF slot # NIL THEN processTest(s, taskFileName, slot, testType) ELSE s

\* Mutant: the s2c slot is forgotten when the meta file arrives.
CaseMeta_skipS2C(s, taskFileName, testName, content) ==
    MetaStep([CountCollision(s, s.metaFile # NIL, "meta") EXCEPT
                  !.metaFile = ProcessMetaFile(testName, content, s.call)],
             taskFileName, s.c2s, "c2s")

\* case "meta"
CaseMeta(s, taskFileName, testName, content) ==
    MetaStep(
        MetaStep([CountCollision(s, s.metaFile # NIL, "meta") EXCEPT
                      !.metaFile = ProcessMetaFile(testName, content, s.call)],
                 taskFileName, s.c2s, "c2s"),
        taskFileName, s.s2c, "s2c")

\* Mutant: the companions of a test are not known to the switch.
Route_noCompanions(s, info, taskFileName, testName, content) ==
    CASE info.Suffix = "c2s_snaplog" ->
             CaseC2S(s, taskFileName, testName,
                     [fn |-> testName, info |-> info, data |-> content,
                      ptr |-> s.call])
      [] info.Suffix = "s2c_snaplog" ->
             CaseS2C(s, taskFileName, testName,
                     [fn |-> testName, info |-> info, data |-> content,
                      ptr |-> s.call])
      [] info.Suffix = "meta" ->
             CaseMeta(s, taskFileName, testName, content)
      [] OTHER ->
             [Inc(s, "TestCount", <<"unknown", "unknown suffix">>, 0)
                 EXCEPT !.err = "Unknown test suffix"]

\* The switch on info.Suffix.
Route(s, info, taskFileName, testName, content) ==
    CASE info.Suffix = "c2s_snaplog" ->
             CaseC2S(s, taskFileName, testName,
                     [fn |-> testName, info |-> info, data |-> content,
                      ptr |-> s.call])
      [] info.Suffix = "s2c_snaplog" ->
             CaseS2C(s, taskFileName, testName,
                     [fn |-> testName, info |-> info, data |-> content,
                      ptr |-> s.call])
      [] info.Suffix = "meta" ->
             CaseMeta(s, taskFileName, testName, content)
      [] info.Suffix \in {"c2s_ndttrace", "s2c_ndttrace", "cputime"} -> s
      [] OTHER ->
             [Inc(s, "TestCount", <<"unknown", "unknown suffix">>, 0)
                 EXCEPT !.err = "Unknown test suffix"]

\* Mutant: a name the grammar refuses ends the current bucket.
Parsed_badNameResets(s, parsed, taskFileName, testName, content) ==
    IF parsed.err # NoErr
    THEN [Inc(handleAnomalies(s, taskFileName),
              "TestCount", <<"unknown", "bad filename">>, 0)
             EXCEPT !.timestamp = "", !.s2c = NIL, !.c2s = NIL, !.metaFile = NIL]
    ELSE Route(Rollover(s, parsed.info, taskFileName), parsed.info,
               taskFileName, testName, content)

Parsed(s, parsed, taskFileName, testName, content) ==
    IF parsed.err # NoErr
    THEN Inc(s, "TestCount", <<"unknown", "bad filename">>, 0)
    ELSE Route(Rollover(s, parsed.info, taskFileName), parsed.info,
               taskFileName, testName, content)

ParseAndInsert(s, taskInfo, testName, content) ==
    Parsed(s, ParseNDTFileName(testName), taskInfo.filename, testName, content)

\* ------------------------------------------------------------- fixValues
\* A Web100ValueMap with its nested maps is a function from the paths that
\* are present to their values; a key that is absent is not in its domain.
LocalAddress == <<"web100_log_entry", "snap", "LocalAddress">>
RemAddress == <<"web100_log_entry", "snap", "RemAddress">>
LocalAddressType == <<"web100_log_entry", "snap", "LocalAddressType">>
StartTimeStamp == <<"web100_log_entry", "snap", "StartTimeStamp">>
StartTimeUsec == <<"web100_log_entry", "snap", "StartTimeUsec">>
local_ip == <<"web100_log_entry", "connection_spec", "local_ip">>
remote_ip == <<"web100_log_entry", "connection_spec", "remote_ip">>
local_af == <<"web100_log_entry", "connection_spec", "local_af">>
remote_af == <<"web100_log_entry", "connection_spec", "remote_af">>
server_ip == <<"connection_spec", "server_ip">>
server_af == <<"connection_spec", "server_af">>
client_ip == <<"connection_spec", "client_ip">>
client_af == <<"connection_spec", "client_af">>

SetValue(r, path, val) ==
    [x \in DOMAIN r \cup {path} |-> IF x = path THEN val ELSE r[x]]

\* SubstituteString / SubstituteInt64: copy the source value to the target
\* if the source is present and, with onlyIfNull, the target is absent.
Substitute(r, onlyIfNull, target, source) ==
    IF onlyIfNull /\ target \in DOMAIN r THEN r
    ELSE IF source \in DOMAIN r THEN SetValue(r, target, r[source])
    ELSE r

\* Mutant: the snapshot's addresses are copied only into unset fields.
FixAddresses_onlyIfNull(r) ==
    Substitute(Substitute(Substitute(r, TRUE, local_ip, LocalAddress),
                          TRUE, remote_ip, RemAddress),
               TRUE, local_af, LocalAddressType)

\* "Always substitute, unless ... the snapshot value is missing."
FixAddresses(r) ==
    Substitute(Substitute(Substitute(r, FALSE, local_ip, LocalAddress),
                          FALSE, remote_ip, RemAddress),
               FALSE, local_af, LocalAddressType)

\* Mutant: the client's address family is taken from remote_af.
Backfill_remoteAf(r) ==
    Substitute(Substitute(Substitute(Substitute(r, TRUE, server_ip, local_ip),
                                     TRUE, server_af, local_af),
                          TRUE, client_ip, remote_ip),
               TRUE, client_af, remote_af)

\* "Only substitute these if they are null."
Backfill(r) ==
    Substitute(Substitute(Substitute(Substitute(r, TRUE, server_ip, local_ip),
                                     TRUE, server_af, local_af),
                          TRUE, client_ip, remote_ip),
               TRUE, client_af, local_af)

\* Mutant: the microseconds are dropped.
StartTime_noUsec(r) ==
    1000000 * r[StartTimeStamp]

StartTime(r) ==
    1000000 * r[StartTimeStamp]
        + (IF StartTimeUsec \in DOMAIN r THEN r[StartTimeUsec] ELSE 0)

FixStartTime(r) ==
    IF StartTimeStamp \in DOMAIN r
    THEN SetValue(r, StartTimeStamp, StartTime(r))
    ELSE r

fixValues(r) == FixStartTime(Backfill(FixAddresses(r)))

\* The value a path holds before fixValues when it is present: one value
\* per path, so that the origin of a value can be told.
ValueAt ==
    (LocalAddress :> "snap local") @@ (RemAddress :> "snap remote")
    @@ (LocalAddressType :> 12) @@ (StartTimeStamp :> 3)
    @@ (StartTimeUsec :> 7)
    @@ (local_ip :> "log local") @@ (remote_ip :> "log remote")
    @@ (local_af :> 10) @@ (remote_af :> 11)
    @@ (server_ip :> "meta server") @@ (server_af :> 20)
    @@ (client_ip :> "meta client") @@ (client_af :> 21)

\* ------------------------------------------------------- web100 variables
\* Mutant: the four bytes are read most significant byte first.
Int32_bigEndian(b) ==
    (IF b[1] >= 128 THEN b[1] - 256 ELSE b[1]) * 16777216
        + b[2] * 65536 + b[3] * 256 + b[4]

\* The value of a 4-byte INTEGER32 field: the little-endian word, read as
\* a signed 32-bit integer and widened to int64.
Int32(b) ==
    (IF b[4] >= 128 THEN b[4] - 256 ELSE b[4]) * 16777216
        + b[3] * 65536 + b[2] * 256 + b[1]

\* Variable.Save for a variable "foo" of type INTEGER32: the value goes
\* into the saver under the variable's name.
Save(data, saver) == SetValue(saver, "foo", Int32(data))

\* The values a byte of the field takes in the model.
ByteVals == {0, 1, 2, 3, 4, 127, 128, 255}

\* The seconds and the microseconds a snapshot may carry.
StartSeconds == {0, 3, 1500}
StartMicros == {0, 7, 999999}

\* ------------------------------------------------------------ typeFields
\* A Field is its effective Name, whether the name came from a tag, and its
\* Index sequence; names are compared as strings, here by their rank.
NameRank == ("a" :> 1) @@ ("b" :> 2)

RECURSIVE IndexLess(_, _)
\* byIndex.Less on two index sequences.
IndexLess(xi, xj) ==
    IF xi = <<>> \/ xj = <<>> THEN Len(xi) < Len(xj)
    ELSE IF Head(xi) # Head(xj) THEN Head(xi) < Head(xj)
    ELSE IndexLess(Tail(xi), Tail(xj))

byIndex(x, y) == IndexLess(x.Index, y.Index)

\* Mutant: the presence of a tag plays no part in the order.
byName_noTag(x, y) ==
    IF x.Name # y.Name THEN NameRank[x.Name] < NameRank[y.Name]
    ELSE IF Len(x.Index) # Len(y.Index) THEN Len(x.Index) < Len(y.Index)
    ELSE byIndex(x, y)

\* byName.Less: name, embedding depth, tag presence, index sequence.
byName(x, y) ==
    IF x.Name # y.Name THEN NameRank[x.Name] < NameRank[y.Name]
    ELSE IF Len(x.Index) # Len(y.Index) THEN Len(x.Index) < Len(y.Index)
    ELSE IF x.NameFromTag # y.NameFromTag THEN x.NameFromTag
    ELSE byIndex(x, y)

dominantField(fs) ==
    IF /\ Len(fs) > 1
       /\ Len(fs[1].Index) = Len(fs[2].Index)
       /\ fs[1].NameFromTag = fs[2].NameFromTag
    THEN [ok |-> FALSE, field |-> NIL]
    ELSE [ok |-> TRUE, field |-> fs[1]]

RECURSIVE Advance(_, _)
\* The length of the run of fields at the head of fs that have the name of
\* the first one, counted from adv.
Advance(fs, adv) ==
    IF adv < Len(fs) /\ fs[adv + 1].Name = fs[1].Name
    THEN Advance(fs, adv + 1)
    ELSE adv

\* What one iteration of the loop appends to out.
Dominant(run) ==
    IF dominantField(run).ok THEN <<dominantField(run).field>> ELSE <<>>

RECURSIVE Dominants(_)
\* The loop of typeFields: one iteration per name.
Dominants(fs) ==
    IF fs = <<>> THEN <<>>
    ELSE Dominant(SubSeq(fs, 1, Advance(fs, 1)))
             \o Dominants(SubSeq(fs, Advance(fs, 1) + 1, Len(fs)))

typeFields(fields) ==
    SortSeq(Dominants(SortSeq(fields, byName)), byIndex)

\* The places a struct declares fields at: three of its own and two of a
\* struct embedded at index 3, in the order listFields visits them.
Places == << <<0>>, <<1>>, <<2>>, <<3, 0>>, <<3, 1>> >>

\* What a place may declare: nothing, or a field with a name that came
\* from a tag or not.
Declared ==
    {NIL} \cup [Name : DOMAIN NameRank, NameFromTag : BOOLEAN]

RECURSIVE ListOf(_, _)
\* The fields listFields finds for a choice of declarations, from place i.
ListOf(decl, i) ==
    IF i > Len(Places) THEN <<>>
    ELSE (IF decl[i] = NIL THEN <<>>
          ELSE << [Name |-> decl[i].Name,
                   NameFromTag |-> decl[i].NameFromTag,
                   Index |-> Places[i]] >>)
         \o ListOf(decl, i + 1)

\* ----------------------------------------------------------- DiscoParser
\* The most InsertRow calls one ParseAndInsert is followed for, and the
\* most records of its input.
MaxRows == 3

\* What dec.Decode makes of a record: it decodes it; it reports a value of
\* the wrong type and goes on to the next record; or it reports malformed
\* input, which it does not read past.
RecordKinds == {"ok", "type", "syntax"}

\* dec.More(): input is left at the decoder's position.
More(d) == d.pos <= Len(d.input)

\* dec.Decode(&ps) and the log line that follows a failure.
Decode(d) ==
    [d EXCEPT !.pos = IF d.input[d.pos] = "syntax" THEN @ ELSE @ + 1,
              !.decodeErrors = IF d.input[d.pos] = "ok" THEN @ ELSE @ + 1,
              !.ps = [rec |-> d.pos, decoded |-> d.input[d.pos] = "ok"]]

\* dp.inserter.InsertRow(ps): the call numbered failAt fails.
InsertRowPS(d) ==
    IF d.calls + 1 = d.failAt
    THEN [d EXCEPT !.calls = @ + 1, !.err = "InsertError"]
    ELSE [d EXCEPT !.calls = @ + 1, !.inserted = Append(@, d.ps)]

\* One iteration of the loop of ParseAndInsert.
Iteration(d) == InsertRowPS(Decode(d))

\* ----------------------------------------------------- MustGetHTTPClient
\* The goroutines that call MustGetHTTPClient, each once.
MaxProcs == 3
Procs == 1..MaxProcs

\* The timeout arguments of the calls.
Timeouts == {"second", "minute"}

\* The package variables httpClientOnce (its done flag and the goroutine
\* that holds its mutex, 0 for none) and httpClient, and for each goroutine
\* its position in the call, its argument and what it got.
NewHTTP ==
    [done |-> FALSE, m |-> 0, httpClient |-> NIL, constructions |-> 0,
     at |-> [p \in Procs |-> "idle"],
     timeout |-> [p \in Procs |-> "none"],
     got |-> [p \in Procs |-> "none"]]

\* google.DefaultClient: a client built under the caller's context, or
\* nil with an error.
DefaultClient(p, timeout, ok) ==
    IF ok THEN [by |-> p, timeout |-> timeout] ELSE NIL

\* ------------------------------------------------------------------ inputs
Name(date, clock, suf, gz) ==
    <<date, "T", clock, "Z_", "host", ".", suf>>
        \o (IF gz THEN <<".gz">> ELSE <<>>)

\* One result of NextTest that carries data, and the result the inserter
\* gives to the rows of the call that parses it.
File(name, data, ins) == [name |-> name, data |-> data, ins |-> ins]

T1 == "00:00:01.1"
T2 == "00:00:02.2"
D1 == "20170501"

\* A snapshot log of three records, one over the size cap, one whose length
\* is no whole number of records, and logs with a given number of records.
GoodData == Blob(7000, 1000, 2000)
HugeData == Blob(SizeCap + 1, 1000, 2000)
BadData == Blob(7001, 1000, 2000)
Snaps(k) == Blob(1000 + 2000 * k, 1000, 2000)

BaseFiles ==
    { File(Name(D1, T1, "c2s_snaplog", TRUE), GoodData, NoErr),
      File(Name(D1, T1, "c2s_snaplog", FALSE), GoodData, NoErr),
      File(Name(D1, T1, "s2c_snaplog", TRUE), GoodData, NoErr),
      File(Name(D1, T1, "s2c_snaplog", FALSE), GoodData, NoErr),
      File(Name(D1, T1, "meta", FALSE), GoodData, NoErr),
      File(Name(D1, T2, "c2s_snaplog", TRUE), GoodData, NoErr),
      File(Name(D1, T2, "meta", FALSE), GoodData, NoErr),
      File(Name(D1, T2, "cputime", FALSE), GoodData, NoErr),
      File(Name(D1, T1, "xyz", FALSE), GoodData, NoErr) }

SizeFiles ==
    { File(Name(D1, T1, "c2s_snaplog", TRUE), HugeData, NoErr),
      File(Name(D1, T1, "c2s_snaplog", FALSE), HugeData, NoErr),
      File(Name(D1, T1, "c2s_snaplog", TRUE), GoodData, NoErr),
      File(Name(D1, T1, "s2c_snaplog", TRUE), GoodData, NoErr),
      File(Name(D1, T1, "s2c_snaplog", TRUE), BadData, NoErr),
      File(Name(D1, T1, "meta", FALSE), GoodData, NoErr),
      File(Name(D1, T2, "s2c_snaplog", FALSE), HugeData, NoErr),
      File(Name(D1, T2, "meta", FALSE), GoodData, NoErr) }

SnapFiles ==
    { File(Name(D1, T1, "c2s_snaplog", TRUE), Snaps(k), NoErr) :
          k \in {1, 2, 2799, 2800, 2801, 2802, 2803} }
    \cup { File(Name(D1, T1, "meta", FALSE), GoodData, NoErr),
           File(Name(D1, T2, "s2c_snaplog", TRUE), Snaps(2801), NoErr) }

\* A name with a given remote address (the port differs from file to file).
NameAt(date, clock, addr, suf, gz) ==
    <<date, "T", clock, "Z_", addr, ".", suf>>
        \o (IF gz THEN <<".gz">> ELSE <<>>)

\* Names the grammar refuses (no date; a time field time.Parse refuses),
\* unknown suffixes, the known companions of a test, one with its date
\* directory, and a test with its meta file.
NameFiles ==
    { File(<<"junk", ".", "meta">>, GoodData, NoErr),
      File(Name(D1, "29:00:00.0", "c2s_snaplog", TRUE), GoodData, NoErr),
      File(Name(D1, T1, "xyz", FALSE), GoodData, NoErr),
      File(Name(D1, T2, "xyz", TRUE), GoodData, NoErr),
      File(Name(D1, T1, "cputime", FALSE), GoodData, NoErr),
      File(<<"2017/05/01/">> \o Name(D1, T1, "c2s_ndttrace", TRUE), GoodData, NoErr),
      File(Name(D1, T2, "s2c_ndttrace", FALSE), GoodData, NoErr),
      File(Name(D1, T1, "c2s_snaplog", TRUE), GoodData, NoErr),
      File(Name(D1, T1, "meta", FALSE), GoodData, NoErr) }

\* The plain and the gzipped copy of a test, and files of the same time
\* from another port.
CollFiles ==
    { File(NameAt(D1, T1, "host", "c2s_snaplog", TRUE), GoodData, NoErr),
      File(NameAt(D1, T1, "host", "c2s_snaplog", FALSE), GoodData, NoErr),
      File(NameAt(D1, T1, "host2", "c2s_snaplog", TRUE), GoodData, NoErr),
      File(NameAt(D1, T1, "host", "s2c_snaplog", TRUE), GoodData, NoErr),
      File(NameAt(D1, T1, "host", "s2c_snaplog", FALSE), GoodData, NoErr),
      File(NameAt(D1, T1, "host2", "s2c_snaplog", FALSE), GoodData, NoErr),
      File(NameAt(D1, T1, "host", "meta", FALSE), GoodData, NoErr),
      File(NameAt(D1, T1, "host2", "meta", FALSE), GoodData, NoErr),
      File(NameAt(D1, T2, "host", "cputime", FALSE), GoodData, NoErr) }

\* Logs that do not pass ValidateSnapshots: one with three records, one
\* with none, one whose length is no whole number of records.
ValidFiles ==
    { File(Name(D1, T1, "c2s_snaplog", TRUE), Invalid(GoodData), NoErr),
      File(Name(D1, T1, "c2s_snaplog", TRUE), GoodData, NoErr),
      File(Name(D1, T1, "s2c_snaplog", FALSE), Invalid(GoodData), NoErr),
      File(Name(D1, T1, "s2c_snaplog", TRUE), Invalid(Snaps(0)), NoErr),
      File(Name(D1, T1, "c2s_snaplog", FALSE), Invalid(BadData), NoErr),
      File(Name(D1, T1, "meta", FALSE), GoodData, NoErr),
      File(Name(D1, T2, "meta", FALSE), GoodData, NoErr),
      File(Name(D1, T2, "c2s_snaplog", TRUE), Invalid(Snaps(2801)), NoErr) }

\* A log of whole records with a payload of the given length.
Sized(len) == Blob(len, len % 2000, 2000)

\* Payloads at and next to the three sizes processTest compares with.
ThreshFiles ==
    { File(Name(D1, T1, "c2s_snaplog", TRUE), Sized(len), NoErr) :
          len \in {TinySize, TinySize + 1, SmallSize - 1, SmallSize,
                   SizeCap, SizeCap + 1} }
    \cup { File(Name(D1, T1, "meta", FALSE), GoodData, NoErr),
           File(Name(D1, T2, "s2c_snaplog", FALSE), Sized(TinySize), NoErr) }

\* A short archive: a test with its meta file and a file no case handles.
LiveFiles ==
    { File(Name(D1, T1, "c2s_snaplog", TRUE), GoodData, NoErr),
      File(Name(D1, T1, "meta", FALSE), GoodData, NoErr),
      File(Name(D1, T2, "xyz", FALSE), GoodData, NoErr) }

D2 == "20170502"

\* Tests of the same time of day on two days.
DateFiles ==
    { File(Name(D1, T1, "c2s_snaplog", TRUE), GoodData, NoErr),
      File(Name(D1, T1, "s2c_snaplog", FALSE), GoodData, NoErr),
      File(Name(D1, T1, "meta", FALSE), GoodData, NoErr),
      File(Name(D2, T1, "c2s_snaplog", TRUE), GoodData, NoErr),
      File(Name(D2, T1, "s2c_snaplog", TRUE), GoodData, NoErr),
      File(Name(D2, T1, "meta", FALSE), GoodData, NoErr),
      File(Name(D2, T2, "meta", FALSE), GoodData, NoErr) }

\* One test file for each way processTest and getAndInsertValues return:
\* a row inserted, a row the inserter refuses, a payload over the size
\* cap, a payload that is no snapshot log, a log without snapshots.
PathFiles ==
    { File(Name(D1, T1, "c2s_snaplog", TRUE), GoodData, NoErr),
      File(Name(D1, T1, "c2s_snaplog", TRUE), GoodData, "insert error"),
      File(Name(D1, T1, "c2s_snaplog", TRUE), HugeData, NoErr),
      File(Name(D1, T1, "s2c_snaplog", TRUE), BadData, NoErr),
      File(Name(D1, T1, "s2c_snaplog", FALSE), Snaps(0), NoErr),
      File(Name(D1, T1, "meta", FALSE), GoodData, NoErr),
      File(Name(D1, T2, "meta", FALSE), GoodData, NoErr) }

\* Files whose rows the inserter refuses.
InsFiles ==
    { File(Name(D1, T1, "c2s_snaplog", TRUE), GoodData, NoErr),
      File(Name(D1, T1, "c2s_snaplog", TRUE), GoodData, "insert error"),
      File(Name(D1, T1, "c2s_snaplog", FALSE), GoodData, "insert error"),
      File(Name(D1, T1, "s2c_snaplog", TRUE), GoodData, "insert error"),
      File(Name(D1, T1, "meta", FALSE), GoodData, "insert error"),
      File(Name(D1, T2, "meta", FALSE), GoodData, NoErr),
      File(Name(D1, T2, "c2s_snaplog", TRUE), GoodData, NoErr),
      File(Name(D1, T2, "cputime", FALSE), GoodData, "insert error") }

\* ------------------------------------------------------------------- state
VARIABLES
    alphabet,   \* which set of files the archive of this task draws from
    pc,         \* position of ProcessAllTests: "loop", "flush", "done"
    files,      \* ProcessAllTests' counter of NextTest results
    nilData,    \* ProcessAllTests' counter of entries without data
    n,          \* the NDTParser: timestamp, c2s, s2c, metaFile
    rows,       \* the rows handed to inserter.InsertRow, in order
    events,     \* the metric increments, in order
    arrived,    \* the results of NextTest, in order (entry i is call i)
    bucket,     \* the call whose file set the context's timestamp
    flushes,    \* the number of Flush calls
    ret,        \* what ProcessAllTests returned
    workerTask, \* the WorkerState gauge of label "task"
    results     \* the value map fixValues works on: path |-> value; for
                \* Variable.Save, the bytes of the field and the saver

vars == <<alphabet, pc, files, nilData, n, rows, events, arrived, bucket,
          flushes, ret, results, workerTask>>

TaskMeta == [filename |-> "task.tgz"]

InitWith(fs) ==
    /\ alphabet = fs
    /\ pc = "loop"
    /\ files = 0
    /\ nilData = 0
    /\ n = NewNDTParser
    /\ rows = <<>>
    /\ events = <<>>
    /\ arrived = <<>>
    /\ bucket = 0
    /\ flushes = 0
    /\ ret = NIL
    /\ workerTask = 1
    /\ results = <<>>

Init == InitWith("base")
InitSize == InitWith("size")
InitSnap == InitWith("snap")
InitName == InitWith("name")
InitColl == InitWith("coll")
InitIns == InitWith("ins")
InitValid == InitWith("valid")
InitThresh == InitWith("thresh")
InitLive == InitWith("live")
InitDate == InitWith("date")
InitPaths == InitWith("paths")

\* The files an archive of the given kind may hold.
FilesOf(kind) ==
    CASE kind = "base" -> BaseFiles
      [] kind = "size" -> SizeFiles
      [] kind = "snap" -> SnapFiles
      [] kind = "name" -> NameFiles
      [] kind = "coll" -> CollFiles
      [] kind = "ins" -> InsFiles
      [] kind = "valid" -> ValidFiles
      [] kind = "thresh" -> ThreshFiles
      [] kind = "live" -> LiveFiles
      [] kind = "date" -> DateFiles
      [] kind = "paths" -> PathFiles

\* ------------------------------------------------------- ProcessAllTests
\* The view of the parser, the inserter and the metrics one call works on.
CallState(f) ==
    [timestamp |-> n.timestamp, c2s |-> n.c2s, s2c |-> n.s2c,
     metaFile |-> n.metaFile, rows |-> rows, events |-> events,
     call |-> files + 1, ins |-> f.ins, err |-> NoErr, bucket |-> bucket]

\* The body of the loop once ParseAndInsert has returned r.
AfterCall(f, r) ==
    /\ n' = [timestamp |-> r.timestamp, c2s |-> r.c2s, s2c |-> r.s2c,
             metaFile |-> r.metaFile]
    /\ rows' = r.rows
    /\ events' = IF r.err # NoErr
                 THEN Append(r.events,
                             [m |-> "TaskCount",
                              l |-> <<"Task", "ParseAndInsertError">>,
                              ptr |-> 0, call |-> r.call])
                 ELSE r.events
    /\ bucket' = r.bucket
    /\ arrived' = Append(arrived, [kind |-> "file", name |-> f.name,
                                   data |-> f.data, ins |-> f.ins,
                                   err |-> r.err, bucket |-> r.bucket])

\* Mutant: an error of ParseAndInsert ends the loop.
NextTestFile_breakOnError ==
    /\ pc = "loop"
    /\ files < MaxFiles
    /\ \E f \in FilesOf(alphabet) :
         AfterCall(f, ParseAndInsert(CallState(f), TaskMeta, f.name, f.data))
    /\ files' = files + 1
    /\ pc' = IF Last(arrived').err # NoErr THEN "flush" ELSE pc
    /\ UNCHANGED <<workerTask, results, alphabet, nilData, flushes, ret>>

\* NextTest returns a file with data: the parser is called on it.
NextTestFile ==
    /\ pc = "loop"
    /\ files < MaxFiles
    /\ \E f \in FilesOf(alphabet) :
         AfterCall(f, ParseAndInsert(CallState(f), TaskMeta, f.name, f.data))
    /\ files' = files + 1
    /\ UNCHANGED <<workerTask, results, alphabet, pc, nilData, flushes, ret>>

\* NextTest returns an entry without data (a directory): it is skipped.
NextTestNil ==
    /\ pc = "loop"
    /\ files < MaxFiles
    /\ files' = files + 1
    /\ nilData' = nilData + 1
    /\ arrived' = Append(arrived, [kind |-> "nil"])
    /\ UNCHANGED <<workerTask, results, alphabet, pc, n, rows, events, bucket, flushes, ret>>

\* Mutant: the loop goes on after a read error.
NextTestErr_continue ==
    /\ pc = "loop"
    /\ files < MaxFiles
    /\ files' = files + 1
    /\ events' = Append(events, [m |-> "TestCount",
                                 l |-> <<"unknown", "unrecovered">>,
                                 ptr |-> 0, call |-> files + 1])
    /\ arrived' = Append(arrived, [kind |-> "error"])
    /\ UNCHANGED <<workerTask, results, alphabet, pc, nilData, n, rows, bucket, flushes, ret>>

\* NextTest returns an error other than io.EOF: the loop is left.
NextTestErr ==
    /\ pc = "loop"
    /\ files < MaxFiles
    /\ files' = files + 1
    /\ events' = Append(events, [m |-> "TestCount",
                                 l |-> <<"unknown", "unrecovered">>,
                                 ptr |-> 0, call |-> files + 1])
    /\ arrived' = Append(arrived, [kind |-> "error"])
    /\ pc' = "flush"
    /\ UNCHANGED <<workerTask, results, alphabet, nilData, n, rows, bucket, flushes, ret>>

\* NextTest returns io.EOF: the loop ends.
NextTestEOF ==
    /\ pc = "loop"
    /\ pc' = "flush"
    /\ UNCHANGED <<workerTask, results, alphabet, files, nilData, n, rows, events, arrived, bucket,
                   flushes, ret>>

\* Mutant: the rows are not flushed when the loop was left on a read error.
Flush_notOnError ==
    /\ pc = "flush"
    /\ \E e \in {NoErr, "flush error"} :
         ret' = [files |-> files, err |-> e]
    /\ flushes' = IF arrived # <<>> /\ Last(arrived).kind = "error"
                  THEN flushes ELSE flushes + 1
    /\ workerTask' = workerTask - 1
    /\ pc' = "done"
    /\ UNCHANGED <<results, alphabet, files, nilData, n, rows, events, arrived, bucket>>

\* The rows cached in the inserter are flushed and ProcessAllTests returns
\* the file count and Flush's error.
Flush ==
    /\ pc = "flush"
    /\ \E e \in {NoErr, "flush error"} :
         ret' = [files |-> files, err |-> e]
    /\ flushes' = flushes + 1
    /\ workerTask' = workerTask - 1
    /\ pc' = "done"
    /\ UNCHANGED <<results, alphabet, files, nilData, n, rows, events, arrived, bucket>>

Next ==
    \/ NextTestFile
    \/ NextTestNil
    \/ NextTestErr
    \/ NextTestEOF
    \/ Flush

Spec == Init /\ [][Next]_vars
SpecSize == InitSize /\ [][Next]_vars
SpecSnap == InitSnap /\ [][Next]_vars
SpecName == InitName /\ [][Next]_vars
SpecColl == InitColl /\ [][Next]_vars
SpecIns == InitIns /\ [][Next]_vars
SpecValid == InitValid /\ [][Next]_vars
SpecThresh == InitThresh /\ [][Next]_vars
SpecDate == InitDate /\ [][Next]_vars
SpecPaths == InitPaths /\ [][Next]_vars

\* Goroutines call MustGetHTTPClient concurrently.
InitHTTP ==
    /\ alphabet = "http"
    /\ pc = "http"
    /\ files = 0
    /\ nilData = 0
    /\ n = NewNDTParser
    /\ rows = <<>>
    /\ events = <<>>
    /\ arrived = <<>>
    /\ bucket = 0
    /\ flushes = 0
    /\ ret = NIL
    /\ workerTask = 0
    /\ results = NewHTTP

HTTPStep(h) ==
    /\ pc = "http"
    /\ results' = h
    /\ UNCHANGED <<workerTask, alphabet, pc, files, nilData, n, rows, events, arrived,
                   bucket, flushes, ret>>

\* A goroutine calls MustGetHTTPClient(timeout) and enters Once.Do.
CallMustGet ==
    \E p \in Procs : \E t \in Timeouts :
        /\ results.at[p] = "idle"
        /\ HTTPStep([results EXCEPT !.at[p] = "do", !.timeout[p] = t])

\* Once.Do reads the done flag: set, Do returns; clear, it goes for the
\* mutex.
OnceFast ==
    \E p \in Procs :
        /\ results.at[p] = "do"
        /\ HTTPStep([results EXCEPT
                         !.at[p] = IF results.done THEN "return" ELSE "lock"])

\* The mutex is taken and the done flag read again: set, the mutex is
\* released and Do returns; clear, the function is run.
OnceLock ==
    \E p \in Procs :
        /\ results.at[p] = "lock"
        /\ results.m = 0
        /\ HTTPStep(IF results.done
                    THEN [results EXCEPT !.at[p] = "return"]
                    ELSE [results EXCEPT !.at[p] = "f", !.m = p])

\* The function given to Do: httpClient is assigned what DefaultClient
\* returns, and an error panics.
Construct ==
    \E p \in Procs : \E ok \in BOOLEAN :
        /\ results.at[p] = "f"
        /\ HTTPStep([results EXCEPT
                         !.httpClient = DefaultClient(p, results.timeout[p], ok),
                         !.constructions = @ + 1,
                         !.at[p] = IF ok THEN "built" ELSE "panic"])

\* The function has returned, or is unwinding: Do's deferred calls set the
\* done flag and release the mutex. A panic leaves the call without a
\* result.
OnceDone ==
    \E p \in Procs :
        /\ results.at[p] \in {"built", "panic"}
        /\ HTTPStep([results EXCEPT
                         !.done = TRUE, !.m = 0,
                         !.at[p] = IF results.at[p] = "built"
                                   THEN "return" ELSE "panicked"])

\* return httpClient
ReturnClient ==
    \E p \in Procs :
        /\ results.at[p] = "return"
        /\ HTTPStep([results EXCEPT !.at[p] = "returned",
                                    !.got[p] = results.httpClient])

NextHTTP ==
    \/ CallMustGet
    \/ OnceFast
    \/ OnceLock
    \/ Construct
    \/ OnceDone
    \/ ReturnClient

SpecHTTP == InitHTTP /\ [][NextHTTP]_vars

\* ProcessAllTests is sequential code: once the loop is left, Flush runs
\* and the function returns. What the source returns, and when, is left
\* to the source.
SpecLive == InitLive /\ [][Next]_vars /\ WF_vars(Flush)

\* getAndInsertValues hands a map with any of the paths present to
\* fixValues.
InitFix ==
    /\ alphabet = "fix"
    /\ pc = "fix"
    /\ files = 0
    /\ nilData = 0
    /\ n = NewNDTParser
    /\ rows = <<>>
    /\ events = <<>>
    /\ arrived = <<>>
    /\ bucket = 0
    /\ flushes = 0
    /\ ret = NIL
    /\ workerTask = 0
    /\ \E present \in SUBSET DOMAIN ValueAt :
       \E start \in StartSeconds, usec \in StartMicros :
         results = [x \in present |->
                        IF x = StartTimeStamp THEN start
                        ELSE IF x = StartTimeUsec THEN usec
                        ELSE ValueAt[x]]

FixValues ==
    /\ pc = "fix"
    /\ results' = fixValues(results)
    /\ pc' = "fixed"
    /\ UNCHANGED <<workerTask, alphabet, files, nilData, n, rows, events, arrived, bucket,
                   flushes, ret>>

NextFix == FixValues

\* A variable "foo 0 1 4" saves four bytes into an empty saver.
InitVar ==
    /\ alphabet = "var"
    /\ pc = "save"
    /\ files = 0
    /\ nilData = 0
    /\ n = NewNDTParser
    /\ rows = <<>>
    /\ events = <<>>
    /\ arrived = <<>>
    /\ bucket = 0
    /\ flushes = 0
    /\ ret = NIL
    /\ workerTask = 0
    /\ \E b \in [1..4 -> ByteVals] : results = [data |-> b, saver |-> <<>>]

SaveVar ==
    /\ pc = "save"
    /\ results' = [results EXCEPT !.saver = Save(results.data, @)]
    /\ pc' = "saved"
    /\ UNCHANGED <<workerTask, alphabet, files, nilData, n, rows, events, arrived, bucket,
                   flushes, ret>>

NextVar == SaveVar

\* The indices Snapshot is asked for.
Indices == (0 - 2)..7

\* A log of up to five records, which passes ValidateSnapshots or does
\* not, is asked for the snapshot at some index.
InitIndex ==
    /\ alphabet = "index"
    /\ pc = "index"
    /\ files = 0
    /\ nilData = 0
    /\ n = NewNDTParser
    /\ rows = <<>>
    /\ events = <<>>
    /\ arrived = <<>>
    /\ bucket = 0
    /\ flushes = 0
    /\ ret = NIL
    /\ workerTask = 0
    /\ \E k \in 0..5, ok \in BOOLEAN, i \in Indices :
         results = [data |-> IF ok THEN Snaps(k) ELSE Invalid(Snaps(k)),
                    i |-> i, validated |-> "no", err |-> "none"]

\* ValidateSnapshots is called on the log.
CallValidate ==
    /\ pc = "index"
    /\ results.validated = "no"
    /\ results' = [results EXCEPT
                      !.validated = IF ValidateSnapshots(NewSnapLog(results.data)) = NoErr
                                    THEN "passed" ELSE "failed"]
    /\ UNCHANGED <<workerTask, alphabet, pc, files, nilData, n, rows, events, arrived,
                   bucket, flushes, ret>>

\* Snapshot(i) is called on the log.
CallSnapshot ==
    /\ pc = "index"
    /\ results' = [results EXCEPT
                      !.err = Snapshot(NewSnapLog(results.data), results.i)]
    /\ pc' = "indexed"
    /\ UNCHANGED <<workerTask, alphabet, files, nilData, n, rows, events, arrived, bucket,
                   flushes, ret>>

NextIndex ==
    \/ CallValidate
    \/ CallSnapshot

SpecIndex == InitIndex /\ [][NextIndex]_vars

\* typeFields is given the fields of a struct type.
InitFields ==
    /\ alphabet = "fields"
    /\ pc = "fields"
    /\ files = 0
    /\ nilData = 0
    /\ n = NewNDTParser
    /\ rows = <<>>
    /\ events = <<>>
    /\ arrived = <<>>
    /\ bucket = 0
    /\ flushes = 0
    /\ ret = NIL
    /\ workerTask = 0
    /\ \E decl \in [1..Len(Places) -> Declared] :
         results = [fields |-> ListOf(decl, 1), out |-> <<>>]

TypeFields ==
    /\ pc = "fields"
    /\ results' = [results EXCEPT !.out = typeFields(results.fields)]
    /\ pc' = "listed"
    /\ UNCHANGED <<workerTask, alphabet, files, nilData, n, rows, events, arrived, bucket,
                   flushes, ret>>

NextFields == TypeFields

\* DiscoParser.ParseAndInsert is given a test of up to MaxRows records and
\* an inserter.
InitDisco ==
    /\ alphabet = "disco"
    /\ pc = "disco"
    /\ files = 0
    /\ nilData = 0
    /\ n = NewNDTParser
    /\ rows = <<>>
    /\ events = <<>>
    /\ arrived = <<>>
    /\ bucket = 0
    /\ flushes = 0
    /\ ret = NIL
    /\ workerTask = 0
    /\ \E len \in 0..MaxRows : \E input \in [1..len -> RecordKinds] :
       \E failAt \in 0..MaxRows :
         results = [input |-> input, failAt |-> failAt, pos |-> 1,
                    decodeErrors |-> 0, ps |-> NIL, calls |-> 0,
                    inserted |-> <<>>, err |-> NoErr]

\* The body of the loop: a record is decoded and a row is inserted; an
\* InsertRow error is returned.
DiscoRecord ==
    /\ pc = "disco"
    /\ More(results)
    /\ results.calls < MaxRows
    /\ results' = Iteration(results)
    /\ IF Iteration(results).err # NoErr
       THEN pc' = "returned" /\ ret' = Iteration(results).err
       ELSE UNCHANGED <<pc, ret>>
    /\ UNCHANGED <<workerTask, alphabet, files, nilData, n, rows, events, arrived, bucket,
                   flushes>>

\* The loop ends: return nil.
DiscoReturn ==
    /\ pc = "disco"
    /\ ~More(results)
    /\ pc' = "returned"
    /\ ret' = NoErr
    /\ UNCHANGED <<workerTask, alphabet, files, nilData, n, rows, events, arrived, bucket,
                   flushes, results>>

NextDisco == DiscoRecord \/ DiscoReturn

SpecDisco == InitDisco /\ [][NextDisco]_vars

SpecFields == InitFields /\ [][NextFields]_vars

SpecVar == InitVar /\ [][NextVar]_vars

SpecFix == InitFix /\ [][NextFix]_vars

\* ------------------------------------------------- reading the history
Calls == 1..Len(arrived)

\* Call p handed ParseAndInsert a name that ParseNDTFileName accepts.
WellNamed(p) ==
    /\ arrived[p].kind = "file"
    /\ ParseNDTFileName(arrived[p].name).err = NoErr

InfoOf(p) == ParseNDTFileName(arrived[p].name).info

IsData(p) == WellNamed(p) /\ InfoOf(p).Suffix \in {"c2s_snaplog", "s2c_snaplog"}
IsMeta(p) == WellNamed(p) /\ InfoOf(p).Suffix = "meta"
IsGz(p) == HasSuffix(arrived[p].name, ".gz")

\* The payload is within the size cap and parses into at least one snapshot.
Processable(data) ==
    /\ data.len <= SizeCap
    /\ NewSnapLog(data).err = NoErr
    /\ NewSnapLog(data).SnapCount >= 1

\* Call p starts a bucket: its time field was not the one of the context.
RollsAt(p) == WellNamed(p) /\ arrived[p].bucket = p

\* The call that started the bucket of the well-named call p.
BucketStart(p) == arrived[p].bucket

Members(b) == {p \in Calls : p >= b /\ WellNamed(p) /\ BucketStart(p) = b}
Buckets == {b \in Calls : RollsAt(b)}
Closed(b) == \E q \in Calls : q > b /\ RollsAt(q)

RowsOf(p) == {i \in 1..Len(rows) : rows[i].ptr = p}
RowsIn(call) == {i \in 1..Len(rows) : rows[i].call = call}
EventsOf(p, metric, label) ==
    {i \in 1..Len(events) :
        /\ events[i].ptr = p
        /\ events[i].m = metric
        /\ Last(events[i].l) = label}

\* Another copy of the logical file of call p took its slot later on.
Replaced(p) ==
    \E q \in Members(BucketStart(p)) :
        q > p /\ IsData(q) /\ InfoOf(q).Suffix = InfoOf(p).Suffix

\* The row carries a missing-meta anomaly flag.
Flagged(row) == row.fields \cap {"anomalies", "anomolies"} # {}

\* ------------------------------------------------------------------ claims

\* C1: an OutputRow is emitted once per data file and never per meta file:
\* no buffered c2s or s2c file is turned into more than one InsertRow call,
\* and no row is built from a meta file.
C1_OncePerDataFile ==
    \A p \in Calls :
        /\ Cardinality(RowsOf(p)) <= 1
        /\ RowsOf(p) # {} => IsData(p)

\* C2: every buffered data file with a parsable payload within the size
\* cap, not replaced in its slot by another copy, has been turned into a
\* row when ProcessAllTests has returned, the last bucket's files included.
C2_NoSilentDrop ==
    (pc = "done" /\ \A q \in Calls : arrived[q].kind # "error") =>
        \A p \in Calls :
            (IsData(p) /\ Processable(arrived[p].data) /\ ~ Replaced(p))
                => RowsOf(p) # {}

\* ---- the step that hands one more file to ParseAndInsert
Arrival == files' = files + 1 /\ Last(arrived').kind = "file"
InName == Last(arrived').name
InData == Last(arrived').data
InParsed == ParseNDTFileName(InName)
InOk == Arrival /\ InParsed.err = NoErr

\* The incoming file has another time field than the context.
RolloverStep == InOk /\ InParsed.info.Time # n.timestamp

NewRows == (Len(rows) + 1)..Len(rows')
NewRowsOf(p) == {i \in NewRows : rows'[i].ptr = p}
NewEvents == (Len(events) + 1)..Len(events')
NewEventsOf(p, metric) ==
    {i \in NewEvents : events'[i].ptr = p /\ events'[i].m = metric}
NewLabelled(p, label) ==
    {i \in NewEvents : events'[i].ptr = p /\ Last(events'[i].l) = label}

\* The data files buffered before the step.
Buffered == {x \in {n.c2s, n.s2c} : x # NIL}

\* ---- C3
\* The bucket started by call b holds exactly a meta file, a c2s .gz file
\* and an s2c .gz file, with payloads that can be processed.
ScenarioA(b) ==
    /\ Cardinality(Members(b)) = 3
    /\ \E m, c, d \in Members(b) :
         /\ IsMeta(m)
         /\ IsData(c) /\ InfoOf(c).Suffix = "c2s_snaplog" /\ IsGz(c)
         /\ IsData(d) /\ InfoOf(d).Suffix = "s2c_snaplog" /\ IsGz(d)
         /\ Processable(arrived[c].data) /\ Processable(arrived[d].data)

BucketRows(b) == {i \in 1..Len(rows) : rows[i].ptr \in Members(b)}

\* C3: Scenario A: once a meta, a c2s .gz and an s2c .gz file of one
\* timestamp have arrived, in any order, exactly two rows exist for the
\* bucket, one per data file, also after the next rollover; each was built
\* with the bucket's real meta record and none carries a missing-meta flag.
C3_ScenarioA ==
    \A b \in Buckets :
        ScenarioA(b) =>
            /\ Cardinality(BucketRows(b)) = 2
            /\ \A p \in Members(b) : IsData(p) => Cardinality(RowsOf(p)) = 1
            /\ \A i \in BucketRows(b) :
                 /\ rows[i].meta # EmptyMetaFileData
                 /\ rows[i].meta.ptr \in Members(b)
                 /\ IsMeta(rows[i].meta.ptr)
                 /\ rows[i].meta.TestName = arrived[rows[i].meta.ptr].name
                 /\ ~ Flagged(rows[i])

\* Scenario A with the data files ahead of the meta file, after the rollover.
C3_Witness ==
    \E b \in Buckets :
        /\ ScenarioA(b) /\ Closed(b)
        /\ IsData(b) /\ IsData(b + 1) /\ IsMeta(b + 2)
        /\ Cardinality(BucketRows(b)) = 2

\* ---- C4
\* C4 as stated: at a rollover with no meta buffered, one row per buffered
\* data file is emitted against the placeholder meta record.
C4_RowPerBufferedFile ==
    [][(RolloverStep /\ n.metaFile = NIL) =>
          /\ Cardinality(NewRows) = Cardinality(Buffered)
          /\ \A x \in Buffered : Cardinality(NewRowsOf(x.ptr)) = 1
          /\ \A i \in NewRows : rows'[i].meta = EmptyMetaFileData]_vars

\* C4 amended: at a rollover with no meta buffered, each buffered data file
\* is processed once against the placeholder meta record, and exactly one
\* row is emitted for each buffered file whose payload is within the size
\* cap and parses; a buffered file that is rejected yields no row.
C4_RowPerProcessableFile ==
    [][(RolloverStep /\ n.metaFile = NIL) =>
          /\ \A x \in Buffered :
               /\ Cardinality(NewLabelled(x.ptr, "no meta")) = 1
               /\ Cardinality(NewEventsOf(x.ptr, "FileSizeHistogram")) = 1
               /\ Cardinality(NewRowsOf(x.ptr)) =
                      IF Processable(x.data) THEN 1 ELSE 0
          /\ \A i \in NewRows :
               /\ rows'[i].meta = EmptyMetaFileData
               /\ \E x \in Buffered : rows'[i].ptr = x.ptr]_vars

\* A bucket of one c2s .gz file and no meta was rolled over into one row.
C4_Witness ==
    \E b \in Buckets :
        /\ Closed(b) /\ Members(b) = {b}
        /\ IsData(b) /\ IsGz(b) /\ InfoOf(b).Suffix = "c2s_snaplog"
        /\ Cardinality(RowsOf(b)) = 1
        /\ \A i \in RowsOf(b) :
             rows[i].meta = EmptyMetaFileData /\ rows[i].call > b

\* ---- C5
\* C5: a row is tagged missing-meta exactly if it was built against the
\* placeholder meta record.
C5_MissingMetaTagged ==
    \A i \in 1..Len(rows) :
        Flagged(rows[i]) <=> rows[i].meta = EmptyMetaFileData

\* ---- C6
\* The closed bucket started by b holds one oversized data file d and one
\* meta file, in either order.
OversizePair(b, d) ==
    /\ Closed(b)
    /\ d \in Members(b) /\ IsData(d) /\ arrived[d].data.len > SizeCap
    /\ Cardinality(Members(b)) = 2
    /\ \E m \in Members(b) : IsMeta(m)

\* C6: Scenario C: an oversized data file yields no row and exactly one
\* size-limit error, whatever the order of the file and its meta file and
\* whether or not the name ends in .gz, up to and including the rollover.
C6_OversizeOneError ==
    \A b \in Buckets : \A d \in Calls :
        OversizePair(b, d) =>
            /\ RowsOf(d) = {}
            /\ Cardinality(EventsOf(d, "ErrorCount", ">10MB")) = 1

\* ---- C7
Min(a, b) == IF a < b THEN a ELSE b

\* C7: the snapshot decoded into a row is the one at index
\* min(snapshotCount - 1, MAX_SNAPSHOTS - 1).
C7_FinalIndex ==
    \A i \in 1..Len(rows) :
        rows[i].snap =
            Min(NewSnapLog(arrived[rows[i].ptr].data).SnapCount - 1,
                MAX_NUM_SNAPSHOTS - 1)

\* ---- C8
\* A data file with a payload that can be processed arrives while a meta
\* record is buffered for its timestamp.
DataWithMeta ==
    /\ InOk
    /\ InParsed.info.Suffix \in {"c2s_snaplog", "s2c_snaplog"}
    /\ InParsed.info.Time = n.timestamp
    /\ n.metaFile # NIL
    /\ Processable(InData)

SlotAfter == IF InParsed.info.Suffix = "c2s_snaplog" THEN n'.c2s ELSE n'.s2c

MetaArrival == InOk /\ InParsed.info.Suffix = "meta"

\* The data slots that are buffered when the meta file is decoded (none
\* after a rollover).
SlotsAtMeta == IF InParsed.info.Time # n.timestamp THEN {} ELSE Buffered

\* C9: when a meta file arrives, its record becomes the buffered meta and
\* every data slot buffered at that moment is processed once against it in
\* the same call; an empty slot causes no processing.
C9_MetaProcessesBuffered ==
    [][MetaArrival =>
          /\ n'.metaFile # NIL
          /\ n'.metaFile.ptr = files'
          /\ n'.metaFile.TestName = InName
          /\ \A x \in SlotsAtMeta :
               /\ Cardinality(NewEventsOf(x.ptr, "FileSizeHistogram")) = 1
               /\ Processable(x.data) =>
                    /\ Cardinality(NewRowsOf(x.ptr)) = 1
                    /\ \A i \in NewRowsOf(x.ptr) : rows'[i].meta = n'.metaFile
          /\ \A i \in NewRows :
               rows'[i].meta = n'.metaFile =>
                   \E x \in SlotsAtMeta : rows'[i].ptr = x.ptr
          /\ InParsed.info.Time = n.timestamp =>
               \A i \in NewEvents :
                   events'[i].m = "FileSizeHistogram" =>
                       \E x \in SlotsAtMeta : events'[i].ptr = x.ptr]_vars

\* The last call brought the meta file after both data files: two rows.
C9_Witness ==
    /\ files >= 3 /\ files = Len(arrived)
    /\ IsMeta(files) /\ ~ RollsAt(files)
    /\ n.c2s # NIL /\ n.s2c # NIL
    /\ Cardinality(RowsIn(files)) = 2
    /\ \A i \in RowsIn(files) : rows[i].meta.ptr = files

\* ---- C10
\* C10: at a rollover the anomalies of the old bucket are handled on the
\* old buffers, then the context is reset: the timestamp is the incoming
\* file's time and the buffers hold nothing but what the incoming file
\* itself left there.
C10_Rollover ==
    [][RolloverStep =>
          /\ n'.timestamp = InParsed.info.Time
          /\ n'.c2s # NIL =>
               n'.c2s.ptr = files' /\ InParsed.info.Suffix = "c2s_snaplog"
          /\ n'.s2c # NIL =>
               n'.s2c.ptr = files' /\ InParsed.info.Suffix = "s2c_snaplog"
          /\ n'.metaFile # NIL =>
               n'.metaFile.ptr = files' /\ InParsed.info.Suffix = "meta"
          /\ \A i \in NewRows :
               /\ rows'[i].ptr < files'
               /\ rows'[i].meta =
                      IF n.metaFile = NIL THEN EmptyMetaFileData ELSE n.metaFile
          /\ \A x \in Buffered :
               IF n.metaFile = NIL
               THEN Cardinality(NewLabelled(x.ptr, "no meta")) = 1
               ELSE Cardinality(NewLabelled(x.ptr, "no .gz file")) =
                        IF HasSuffix(x.fn, ".gz") THEN 0 ELSE 1
          /\ Buffered = {} =>
               Cardinality(NewLabelled(0, IF n.metaFile = NIL
                                          THEN "no meta,c2s,s2c"
                                          ELSE "no tests")) = 1]_vars

\* The last call rolled over a bucket that held a data file and a meta
\* file, and left the context empty but for the new timestamp.
C10_Witness ==
    /\ files >= 3 /\ files = Len(arrived)
    /\ RollsAt(files) /\ InfoOf(files).Suffix = "cputime"
    /\ IsData(files - 2) /\ IsMeta(files - 1) /\ ~ RollsAt(files - 1)
    /\ n.timestamp = InfoOf(files).Time
    /\ n.c2s = NIL /\ n.s2c = NIL /\ n.metaFile = NIL

\* ---- C11
\* The metric increments of call q that carry the given label.
LabelledIn(q, label) ==
    {i \in 1..Len(events) : events[i].call = q /\ Last(events[i].l) = label}

\* The bucket started by b holds a meta file and no data file.
MetaOnly(b) ==
    /\ \E m \in Members(b) : IsMeta(m)
    /\ \A p \in Members(b) : ~ IsData(p)

\* The call that rolled the bucket started by b over, if it is closed.
Closer(b) == CHOOSE q \in Calls : q > b /\ RollsAt(q) /\
                 \A x \in Calls : (x > b /\ RollsAt(x)) => x >= q

\* C11: the rollover of a bucket with a meta record but no data file emits
\* no row and counts the "meta, no tests" warning exactly once for that
\* bucket, in the call that rolls it over; a bucket that holds a data file
\* gets no such warning.
C11_MetaNoTests ==
    /\ [][(RolloverStep /\ n.metaFile # NIL /\ Buffered = {}) =>
             /\ NewRows = {}
             /\ Cardinality(NewLabelled(0, "no tests")) = 1]_vars
    /\ [](\A b \in Buckets :
            /\ MetaOnly(b) => \A p \in Members(b) : RowsOf(p) = {}
            /\ Closed(b) =>
                 Cardinality(LabelledIn(Closer(b), "no tests")) =
                     IF MetaOnly(b) THEN 1 ELSE 0)

\* A bucket of one meta file was rolled over: no row, one warning.
C11_Witness ==
    /\ files >= 2 /\ files = Len(arrived)
    /\ RollsAt(files) /\ IsMeta(files - 1) /\ RollsAt(files - 1)
    /\ RowsIn(files) = {}
    /\ Cardinality(LabelledIn(files, "no tests")) = 1

\* ---- C12
\* C12: at a rollover with a real meta record buffered, a buffered data
\* file is processed exactly if it was not processed before in its bucket:
\* a file that already produced a row gets no second one, and a file that
\* has none yet and can be processed gets its row.
C12_OnlyUnprocessed ==
    [][(RolloverStep /\ n.metaFile # NIL) =>
          \A x \in Buffered :
              /\ RowsOf(x.ptr) # {} => NewRowsOf(x.ptr) = {}
              /\ (RowsOf(x.ptr) = {} /\ Processable(x.data)) =>
                     Cardinality(NewRowsOf(x.ptr)) = 1]_vars

\* ---- C13
\* The context holds something a rollover would throw away.
ContextHeld == n.timestamp # "" /\ n.c2s # NIL /\ n.metaFile # NIL

\* C13: a file whose name the grammar refuses is skipped and nothing else:
\* ParseAndInsert returns nil, no row is emitted, the bad-filename count
\* goes up by one and nothing else is counted, and the timestamp and the
\* c2s, s2c and meta buffers of the context are left as they were.
C13_BadNameSkipped ==
    [][(Arrival /\ InParsed.err # NoErr) =>
          /\ Last(arrived').err = NoErr
          /\ rows' = rows
          /\ n' = n
          /\ bucket' = bucket
          /\ Cardinality(NewEvents) = 1
          /\ \A i \in NewEvents :
               /\ events'[i].m = "TestCount"
               /\ Last(events'[i].l) = "bad filename"
          /\ pc' = "loop"]_vars

\* The last call brought a name with an impossible time field while a test
\* and its meta record were buffered; they still are.
C13_Witness ==
    /\ files >= 3 /\ files = Len(arrived)
    /\ arrived[files].kind = "file"
    /\ ParseNDTFileName(arrived[files].name).err = "Invalid test path"
    /\ arrived[files].name[3] # n.timestamp
    /\ ContextHeld
    /\ LabelledIn(files, "bad filename") # {}

\* ---- C14
KnownSuffixes == {"c2s_snaplog", "s2c_snaplog", "meta", "c2s_ndttrace",
                  "s2c_ndttrace", "cputime"}

UnknownSuffix == InOk /\ InParsed.info.Suffix \notin KnownSuffixes

\* Some earlier call of the task ended in an error of ParseAndInsert.
Failed == \E p \in Calls : arrived[p].kind = "file" /\ arrived[p].err # NoErr

\* C14: a file with an unrecognized suffix makes ParseAndInsert return an
\* unknown-suffix error, counted once by the task; the file is put in no
\* slot and gets no row; the loop goes on, and a .gz data file that comes
\* later with its meta record buffered is still turned into its row.
C14_UnknownSuffix ==
    [][/\ UnknownSuffix =>
            /\ Last(arrived').err = "Unknown test suffix"
            /\ NewRowsOf(files') = {}
            /\ \A x \in {n'.c2s, n'.s2c, n'.metaFile} :
                 x # NIL => x.ptr # files'
            /\ Cardinality(NewLabelled(0, "unknown suffix")) = 1
            /\ Cardinality(NewLabelled(0, "ParseAndInsertError")) = 1
            /\ pc' = "loop"
       /\ (Failed /\ DataWithMeta /\ HasSuffix(InName, ".gz")) =>
            Cardinality(NewRowsOf(files')) = 1]_vars

\* A file with an unknown suffix came between a meta file and its test,
\* and the test got its row.
C14_Witness ==
    /\ files >= 3 /\ files = Len(arrived)
    /\ IsMeta(files - 2)
    /\ WellNamed(files - 1) /\ InfoOf(files - 1).Suffix \notin KnownSuffixes
    /\ arrived[files - 1].err = "Unknown test suffix"
    /\ IsData(files) /\ Cardinality(RowsOf(files)) = 1
    /\ pc = "loop"

\* ---- C15
Companion ==
    /\ InOk
    /\ InParsed.info.Suffix \in {"c2s_ndttrace", "s2c_ndttrace", "cputime"}
    /\ InParsed.info.Time = n.timestamp

\* C15: a c2s_ndttrace, s2c_ndttrace or cputime file of the context's
\* timestamp is accepted with no action: ParseAndInsert returns nil, no
\* row is emitted, no counter changes and the buffers are unchanged.
C15_CompanionNoAction ==
    [][Companion =>
          /\ Last(arrived').err = NoErr
          /\ rows' = rows
          /\ events' = events
          /\ n' = n
          /\ bucket' = bucket]_vars

\* The last call brought a trace file of the timestamp of a buffered test.
C15_Witness ==
    /\ files >= 3 /\ files = Len(arrived)
    /\ WellNamed(files) /\ InfoOf(files).Suffix = "c2s_ndttrace"
    /\ ~ RollsAt(files)
    /\ ContextHeld
    /\ LabelledIn(files, "unknown suffix") = {}

\* ---- C16
\* What the slot of the incoming file's suffix holds once the rollover, if
\* any, is done.
SlotBefore ==
    IF InParsed.info.Time # n.timestamp THEN NIL
    ELSE IF InParsed.info.Suffix = "c2s_snaplog" THEN n.c2s
    ELSE IF InParsed.info.Suffix = "s2c_snaplog" THEN n.s2c
    ELSE IF InParsed.info.Suffix = "meta" THEN n.metaFile
    ELSE NIL

\* The two names differ only by a trailing .gz.
GzPair(a, b) == a = Append(b, ".gz") \/ b = Append(a, ".gz")

Collisions == {i \in NewEvents : Last(events'[i].l) = "timestamp collision"}

\* C16: a timestamp collision is counted for a data slot exactly when a
\* file is buffered in the slot and the buffered and the incoming name do
\* not differ only by a trailing .gz; for meta, exactly when a meta record
\* is buffered; never when the slot is empty, and never for another file.
C16_Collision ==
    [][InOk =>
          /\ Cardinality(Collisions) =
                 IF InParsed.info.Suffix \in {"c2s_snaplog", "s2c_snaplog"}
                 THEN IF SlotBefore # NIL /\ ~ GzPair(SlotBefore.fn, InName)
                      THEN 1 ELSE 0
                 ELSE IF InParsed.info.Suffix = "meta"
                      THEN IF SlotBefore # NIL THEN 1 ELSE 0
                 ELSE 0
          /\ \A i \in Collisions :
               /\ events'[i].m = "WarningCount"
               /\ Head(events'[i].l) =
                      CASE InParsed.info.Suffix = "c2s_snaplog" -> "c2s"
                        [] InParsed.info.Suffix = "s2c_snaplog" -> "s2c"
                        [] OTHER -> "meta"]_vars

\* The last call brought a c2s file from another port while a c2s file of
\* the same time was buffered: one collision; the copies of one file that
\* came before it made none.
C16_Witness ==
    /\ files >= 3 /\ files = Len(arrived)
    /\ IsData(files) /\ IsData(files - 1) /\ IsData(files - 2)
    /\ ~ RollsAt(files) /\ ~ RollsAt(files - 1)
    /\ InfoOf(files).Suffix = "c2s_snaplog"
    /\ InfoOf(files - 1).Suffix = "c2s_snaplog"
    /\ InfoOf(files - 2).Suffix = "c2s_snaplog"
    /\ GzPair(arrived[files - 1].name, arrived[files - 2].name)
    /\ InfoOf(files).Address # InfoOf(files - 1).Address
    /\ Cardinality(LabelledIn(files, "timestamp collision")) = 1
    /\ LabelledIn(files - 1, "timestamp collision") = {}

\* ---- C17
\* The other copy (plain or gzipped) of the file of call p came in call q
\* of the same bucket.
CopyOf(p, q) ==
    /\ IsData(p) /\ IsData(q)
    /\ BucketStart(p) = BucketStart(q)
    /\ GzPair(arrived[p].name, arrived[q].name)

\* C17: once the gzipped and the plain copy of a data file have both
\* arrived for one timestamp, in either order, the copy in the slot is the
\* gzipped one, and a row built for the file from then on is built from
\* the gzipped one.
C17_GzCopyKept ==
    /\ \A x \in Buffered :
           (\E q \in Calls : CopyOf(x.ptr, q)) => HasSuffix(x.fn, ".gz")
    /\ \A i \in 1..Len(rows) :
           (\E q \in Calls : CopyOf(rows[i].ptr, q) /\ q <= rows[i].call)
               => HasSuffix(rows[i].test_id, ".gz")

\* ---- C18
\* The inserter refused a row in the last call.
RowRefused == Arrival /\ NewRows # {} /\ Last(arrived').ins # NoErr

\* C18: when InsertRow fails for a row, ParseAndInsert returns the failure
\* to ProcessAllTests, which counts it; InsertRow is not called again for
\* that row in the call; and the loop goes on to the next file.
C18_InsertFailureReported ==
    [][RowRefused =>
          /\ Last(arrived').err # NoErr
          /\ Cardinality(NewLabelled(0, "ParseAndInsertError")) = 1
          /\ \A i, j \in NewRows : rows'[i].ptr = rows'[j].ptr => i = j
          /\ pc' = "loop"]_vars

\* ---- C19
ReadErrors == {p \in Calls : arrived[p].kind = "error"}

\* C19: a read error other than EOF ends the task: it is the last result
\* of NextTest, no call of ParseAndInsert follows it, the unrecovered-error
\* count goes up by one, the loop is left, and Flush is called once before
\* ProcessAllTests returns.
C19_ReadErrorAborts ==
    /\ [](\A p \in ReadErrors :
            /\ p = Len(arrived) /\ p = files
            /\ pc # "loop"
            /\ Cardinality(LabelledIn(p, "unrecovered")) = 1
            /\ \A i \in 1..Len(rows) : rows[i].call < p
            /\ \A i \in 1..Len(events) : events[i].call <= p
            /\ flushes = (IF pc = "done" THEN 1 ELSE 0)
            /\ pc = "done" => ret # NIL /\ ret.files = p)
    /\ [][ReadErrors # {} => /\ arrived' = arrived /\ files' = files
                             /\ rows' = rows /\ events' = events
                             /\ n' = n]_vars

\* The third NextTest failed after two files were parsed; the task has
\* flushed and returned.
C19_Witness ==
    /\ pc = "done" /\ flushes = 1
    /\ files = 3 /\ ReadErrors = {3}
    /\ IsMeta(1) /\ IsData(2) /\ rows # <<>>

\* ---- C20
BackfillPairs == {<<server_ip, local_ip>>, <<server_af, local_af>>,
                  <<client_ip, remote_ip>>, <<client_af, local_af>>}

\* C20: fixValues writes a top-level connection_spec field only if it is
\* unset: then server_ip gets the log entry's local_ip, server_af its
\* local_af, client_ip its remote_ip and client_af its local_af (not
\* remote_af), and stays unset if the log entry has no such value; a field
\* the meta record supplied is left as it was.
C20_Backfill ==
    [][pc = "fix" =>
          \A pair \in BackfillPairs :
              IF pair[1] \in DOMAIN results
              THEN /\ pair[1] \in DOMAIN results'
                   /\ results'[pair[1]] = results[pair[1]]
              ELSE IF pair[2] \in DOMAIN results'
                   THEN /\ pair[1] \in DOMAIN results'
                        /\ results'[pair[1]] = results'[pair[2]]
                   ELSE pair[1] \notin DOMAIN results']_vars

\* fixValues filled client_af from the log entry's local_af, which differs
\* from its remote_af, and left the server_af of the meta record alone.
C20_Witness ==
    /\ pc = "fixed"
    /\ {client_af, local_af, remote_af, server_af} \subseteq DOMAIN results
    /\ LocalAddressType \notin DOMAIN results
    /\ results[client_af] = ValueAt[local_af]
    /\ results[remote_af] # results[client_af]
    /\ results[server_af] = ValueAt[server_af]

\* ---- C21
CopyPairs == {<<local_ip, LocalAddress>>, <<remote_ip, RemAddress>>,
              <<local_af, LocalAddressType>>}

\* C21: fixValues overwrites the log entry's local_ip, remote_ip and
\* local_af with the snapshot's LocalAddress, RemAddress and
\* LocalAddressType whenever the snapshot has the value, whatever the field
\* held; without the snapshot value the field is left as it was; and the
\* backfill of the server and client fields reads the copied values.
C21_AlwaysSubstitute ==
    [][pc = "fix" =>
          /\ \A pair \in CopyPairs :
               IF pair[2] \in DOMAIN results
               THEN /\ pair[1] \in DOMAIN results'
                    /\ results'[pair[1]] = results[pair[2]]
               ELSE IF pair[1] \in DOMAIN results
                    THEN /\ pair[1] \in DOMAIN results'
                         /\ results'[pair[1]] = results[pair[1]]
                    ELSE pair[1] \notin DOMAIN results'
          /\ (server_ip \notin DOMAIN results /\ LocalAddress \in DOMAIN results)
                => /\ server_ip \in DOMAIN results'
                   /\ results'[server_ip] = results[LocalAddress]
          /\ (client_af \notin DOMAIN results
                  /\ LocalAddressType \in DOMAIN results)
                => /\ client_af \in DOMAIN results'
                   /\ results'[client_af] = results[LocalAddressType]]_vars

\* The log entry had its own local_ip, the snapshot's address replaced it,
\* and the unset server_ip was filled with the snapshot's address.
C21_Witness ==
    /\ pc = "fixed"
    /\ {local_ip, server_ip, LocalAddress, remote_ip} \subseteq DOMAIN results
    /\ RemAddress \notin DOMAIN results
    /\ results[local_ip] = ValueAt[LocalAddress]
    /\ results[server_ip] = ValueAt[LocalAddress]
    /\ results[remote_ip] = ValueAt[remote_ip]

\* ---- C22
\* C22: after fixValues, snap.StartTimeStamp is the StartTimeStamp of before
\* times 1000000 plus the StartTimeUsec of before; without StartTimeUsec it
\* is the StartTimeStamp times 1000000; without StartTimeStamp none is
\* written.  StartTimeUsec is left as it was.
C22_StartTimeStamp ==
    [][pc = "fix" =>
          /\ IF StartTimeStamp \in DOMAIN results
             THEN /\ StartTimeStamp \in DOMAIN results'
                  /\ results'[StartTimeStamp] =
                         results[StartTimeStamp] * 1000000
                         + (IF StartTimeUsec \in DOMAIN results
                            THEN results[StartTimeUsec] ELSE 0)
             ELSE StartTimeStamp \notin DOMAIN results'
          /\ IF StartTimeUsec \in DOMAIN results
             THEN /\ StartTimeUsec \in DOMAIN results'
                  /\ results'[StartTimeUsec] = results[StartTimeUsec]
             ELSE StartTimeUsec \notin DOMAIN results']_vars

\* 1500 s and 999999 us were combined into 1500999999 us.
C22_Witness ==
    /\ pc = "fixed"
    /\ {StartTimeStamp, StartTimeUsec} \subseteq DOMAIN results
    /\ results[StartTimeUsec] = 999999
    /\ results[StartTimeStamp] = 1500999999

\* ---- C23
\* The direction that goes with the slot a file is buffered in.
DirectionOf(p) ==
    IF InfoOf(p).Suffix = "c2s_snaplog" THEN CLIENT_TO_SERVER
    ELSE SERVER_TO_CLIENT

\* C23: every row carries the data_direction of the slot its file was
\* processed from, CLIENT_TO_SERVER for the c2s slot and SERVER_TO_CLIENT
\* for the s2c slot, whether the row was built on the file's arrival, on
\* the arrival of the meta file or at the rollover.
C23_DataDirection ==
    \A i \in 1..Len(rows) :
        /\ IsData(rows[i].ptr)
        /\ rows[i].data_direction = DirectionOf(rows[i].ptr)
        /\ CLIENT_TO_SERVER # SERVER_TO_CLIENT

\* Rows of the three paths exist, an s2c row built at a rollover without
\* meta among them.
C23_Witness ==
    /\ \E i \in 1..Len(rows) :
         rows[i].call = rows[i].ptr /\ rows[i].data_direction = CLIENT_TO_SERVER
    /\ \E i \in 1..Len(rows) :
         /\ IsMeta(rows[i].call) /\ rows[i].meta.ptr = rows[i].call
    /\ \E i \in 1..Len(rows) :
         /\ RollsAt(rows[i].call) /\ rows[i].meta = EmptyMetaFileData
         /\ rows[i].data_direction = SERVER_TO_CLIENT

\* ---- C24
\* The files a call may process: those buffered before it and the one it
\* buffers.
InPlay == {x \in {n.c2s, n.s2c, n'.c2s, n'.s2c} : x # NIL}

\* How many times the call handed the file to getAndInsertValues.
Parses(x) == Cardinality(NewLabelled(x.ptr, "normal"))

\* C24: ValidateSnapshots is advisory: each time a log that parsed is
\* handed to getAndInsertValues, a failure of ValidateSnapshots is counted
\* as one warning, and the final snapshot is read and the row emitted
\* just as for a log that passes.
C24_ValidateAdvisory ==
    [][Arrival =>
          \A x \in InPlay :
              NewSnapLog(x.data).err = NoErr =>
                  /\ Cardinality(NewLabelled(x.ptr, "validate failed")) =
                         IF x.data.valid THEN 0 ELSE Parses(x)
                  /\ Cardinality(NewRowsOf(x.ptr)) =
                         IF NewSnapLog(x.data).SnapCount >= 1
                         THEN Parses(x) ELSE 0
                  /\ \A i \in NewRowsOf(x.ptr) :
                         rows'[i].snap =
                             LastSnapshot(NewSnapLog(x.data).SnapCount)]_vars

\* A log that does not pass ValidateSnapshots got its warning and its row.
C24_Witness ==
    \E p \in Calls :
        /\ IsData(p) /\ ~ arrived[p].data.valid
        /\ Cardinality(RowsOf(p)) = 1
        /\ Cardinality(EventsOf(p, "WarningCount", "validate failed")) = 1

\* ---- C25
\* C25: for each row emitted, SnapshotValues was called once while the
\* file was processed, for the final snapshot only, however many snapshots
\* the log holds.
C25_OneDecode ==
    \A i \in 1..Len(rows) : rows[i].decodes = 1

\* ---- C26
Saved == results.saver["foo"]

\* C26: a 4-byte INTEGER32 field decodes little-endian and signed: bytes
\* 01 02 03 04 give 67305985, bytes FF FF FF FF give -1, and in general the
\* value is the 32-bit two's complement number whose bytes, least
\* significant first, are the bytes of the field.
C26_Integer32 ==
    pc = "saved" =>
        /\ DOMAIN results.saver = {"foo"}
        /\ results.data = <<1, 2, 3, 4>> => Saved = 67305985
        /\ results.data = <<255, 255, 255, 255>> => Saved = -1
        /\ Saved >= -2147483647 - 1 /\ Saved <= 2147483647
        /\ Saved < 0 <=> results.data[4] >= 128
        /\ Saved % 256 = results.data[1]
        /\ (Saved \div 256) % 256 = results.data[2]
        /\ (Saved \div 65536) % 256 = results.data[3]
        /\ (Saved \div 16777216) % 256 = results.data[4]

\* Four bytes FF were saved as -1.
C26_Witness ==
    /\ pc = "saved"
    /\ results.data = <<255, 255, 255, 255>>
    /\ results.saver["foo"] = -1

\* ---- C27
\* The length of the payload after its header is a whole number of records.
WholeRecords(data) == (data.len - data.headerLen) % data.recordLength = 0

RecordCount(data) == (data.len - data.headerLen) \div data.recordLength

\* C27: NewSnapLog succeeds exactly when the length after the header is a
\* multiple of the record length, and then snapshotCount is their quotient;
\* if not it fails and there is no log to read: each time a payload within
\* the size cap is handed to getAndInsertValues, a snaplog failure is
\* counted and no row emitted exactly if the length is no such multiple,
\* and the snapshots read for a row are those of a log of that count.
C27_NewSnapLog ==
    [][Arrival =>
          \A x \in InPlay :
              /\ Cardinality(NewLabelled(x.ptr, "snaplog failure")) =
                     IF WholeRecords(x.data) THEN 0 ELSE Parses(x)
              /\ ~ WholeRecords(x.data) =>
                     /\ NewRowsOf(x.ptr) = {}
                     /\ NewLabelled(x.ptr, "validate failed") = {}
                     /\ NewLabelled(x.ptr, "final snapshot failure") = {}
              /\ WholeRecords(x.data) =>
                     /\ Cardinality(NewRowsOf(x.ptr)) =
                            IF RecordCount(x.data) >= 1 THEN Parses(x) ELSE 0
                     /\ \A i \in NewRowsOf(x.ptr) :
                            /\ rows'[i].decodes =
                                   Min(RecordCount(x.data), MAX_NUM_SNAPSHOTS) + 1
                            /\ rows'[i].snap =
                                   Min(RecordCount(x.data) - 1, MAX_NUM_SNAPSHOTS)]_vars

\* A payload of 7001 bytes was refused and one of 7000 bytes gave a row
\* from the last of its three records.
C27_Witness ==
    /\ \E p \in Calls :
         /\ IsData(p) /\ arrived[p].data.len = 7001
         /\ EventsOf(p, "ErrorCount", "snaplog failure") # {}
         /\ RowsOf(p) = {}
    /\ \E p \in Calls :
         /\ IsData(p) /\ arrived[p].data.len = 7000
         /\ \E i \in RowsOf(p) : rows[i].snap = 2 /\ rows[i].decodes = 4

\* ---- C28
\* C28: Snapshot(i) returns a snapshot exactly when 0 <= i < snapshotCount
\* and an IndexError if not (i negative, i = snapshotCount, i larger); the
\* record it returns lies within the payload; and the outcome is the same
\* whether ValidateSnapshots was not called, passed or failed.
C28_SnapshotBounds ==
    pc = "indexed" =>
        /\ results.err =
               IF 0 <= results.i /\ results.i < RecordCount(results.data)
               THEN NoErr ELSE "IndexError"
        /\ results.err = NoErr =>
               /\ results.data.headerLen
                      + results.i * results.data.recordLength >= 0
               /\ results.data.headerLen
                      + (results.i + 1) * results.data.recordLength
                      <= results.data.len

\* A log of three records that failed ValidateSnapshots returned its last
\* snapshot.
C28_Witness ==
    /\ pc = "indexed"
    /\ RecordCount(results.data) = 3
    /\ results.i = 2
    /\ results.err = NoErr
    /\ results.validated = "failed"

\* ---- C29
SeqRange(sq) == {sq[i] : i \in 1..Len(sq)}

Named(nm) == {f \in SeqRange(results.fields) : f.Name = nm}

\* The candidates for a name at the shallowest level that has any.
TopLevel(nm) ==
    {f \in Named(nm) : \A g \in Named(nm) : Len(f.Index) <= Len(g.Index)}

Tagged(nm) == {f \in TopLevel(nm) : f.NameFromTag}

Reported(nm) == {f \in SeqRange(results.out) : f.Name = nm}

\* C29: when several candidates for a name stand at the same level and
\* exactly one of them is tagged, the tagged one is reported and the
\* others are ignored, whichever is declared first; when the leading two
\* are both tagged or both untagged, no field is reported for the name.
C29_TaggedDominates ==
    pc = "listed" =>
        \A nm \in DOMAIN NameRank :
            Cardinality(TopLevel(nm)) >= 2 =>
                IF Cardinality(Tagged(nm)) = 1
                THEN Reported(nm) = Tagged(nm)
                ELSE Reported(nm) = {}

\* An untagged field declared first lost to the tagged field of the same
\* name declared after it.
C29_Witness ==
    /\ pc = "listed"
    /\ [Name |-> "a", NameFromTag |-> FALSE, Index |-> <<0>>]
           \in SeqRange(results.fields)
    /\ Reported("a") = {[Name |-> "a", NameFromTag |-> TRUE, Index |-> <<1>>]}

\* ---- C30
\* Every record of the input was decoded and inserted.
AllInserted ==
    /\ results.decodeErrors = 0
    /\ Len(results.inserted) = Len(results.input)
    /\ \A i \in 1..Len(results.input) :
           results.inserted[i] = [rec |-> i, decoded |-> TRUE]

\* C30: ParseAndInsert returns an error when decoding a record fails,
\* returns the inserter's error when InsertRow fails, stopping at that
\* record, and returns nil only when every record was decoded and inserted.
C30_ParseAndInsertErrors ==
    pc = "returned" =>
        /\ results.decodeErrors > 0 => ret # NoErr
        /\ results.err # NoErr =>
               ret = results.err /\ Len(results.inserted) = results.failAt - 1
        /\ ret = NoErr => AllInserted

\* ---- C31
\* The incoming file is a data file.
InIsData == InOk /\ InParsed.info.Suffix \in {"c2s_snaplog", "s2c_snaplog"}

\* The slot the incoming data file belongs to, after the step.
InSlot ==
    IF InParsed.info.Suffix = "c2s_snaplog" THEN n'.c2s ELSE n'.s2c

\* C31: every row handed to InsertRow was built with a meta record, real
\* or placeholder, in the meta buffer; a data file that finds the meta
\* buffer nil, because none has arrived in its bucket or because the file
\* starts a bucket, is put in its slot and no row is built from it in
\* that call, and without a rollover the call builds no row at all.
C31_MetaPresent ==
    [][ /\ \A i \in NewRows : rows'[i].meta # NIL
        /\ (InIsData /\ (RolloverStep \/ n.metaFile = NIL)) =>
               /\ NewRowsOf(files') = {}
               /\ InSlot # NIL /\ InSlot.ptr = files'
               /\ n'.metaFile = NIL
               /\ ~ RolloverStep => NewRows = {} ]_vars

\* A data file started a bucket and was only buffered, while the call's
\* rollover built a row for the file of the bucket before with the
\* placeholder as its meta record.
C31_Witness ==
    /\ Len(arrived) >= 2
    /\ IsData(Len(arrived))
    /\ RollsAt(Len(arrived))
    /\ n.metaFile = NIL
    /\ n.c2s # NIL /\ n.c2s.ptr = Len(arrived)
    /\ RowsOf(Len(arrived)) = {}
    /\ \E i \in RowsIn(Len(arrived)) : rows[i].meta = EmptyMetaFileData

\* ---- C32
\* The times processTest went past its meta check with the file of call p.
Sizings(p) ==
    EventsOf(p, "FileSizeHistogram", "normal")
        \cup EventsOf(p, "FileSizeHistogram", "huge")

LenOf(p) == arrived[p].data.len

\* C32: a payload of exactly 10 MiB is accepted and one of 10 MiB + 1 is
\* refused without a row; a payload under 16 KiB is made into a row with
\* the "<16KB" warning counted; one of exactly 4096 bytes is made into a
\* row with both the "<16KB" and the "4KB" warning counted.
C32_SizeThresholds ==
    \A p \in Calls :
        (IsData(p) /\ Sizings(p) # {} /\ NewSnapLog(arrived[p].data).SnapCount >= 1) =>
            /\ LenOf(p) >= SizeCap + 1 =>
                   /\ RowsOf(p) = {}
                   /\ Cardinality(EventsOf(p, "ErrorCount", ">10MB"))
                          = Cardinality(Sizings(p))
            /\ LenOf(p) <= SizeCap =>
                   /\ Cardinality(RowsOf(p)) = Cardinality(Sizings(p))
                   /\ EventsOf(p, "ErrorCount", ">10MB") = {}
                   /\ Cardinality(EventsOf(p, "WarningCount", "<16KB"))
                          = IF LenOf(p) < SmallSize
                            THEN Cardinality(Sizings(p)) ELSE 0
                   /\ Cardinality(EventsOf(p, "WarningCount", "4KB"))
                          = IF LenOf(p) = TinySize
                            THEN Cardinality(Sizings(p)) ELSE 0

\* The file of call p was sized once, with a payload of the given length.
SizedOnce(p, len) ==
    /\ p \in Calls /\ IsData(p) /\ LenOf(p) = len
    /\ Cardinality(Sizings(p)) = 1

\* One task saw a payload of 4096 bytes made into a row with both
\* warnings, one of exactly 10 MiB made into a row without any, and one of
\* 10 MiB + 1 refused.
C32_Witness ==
    /\ SizedOnce(2, TinySize)
    /\ Cardinality(RowsOf(2)) = 1
    /\ Cardinality(EventsOf(2, "WarningCount", "<16KB")) = 1
    /\ Cardinality(EventsOf(2, "WarningCount", "4KB")) = 1
    /\ SizedOnce(3, SizeCap)
    /\ Cardinality(RowsOf(3)) = 1
    /\ EventsOf(3, "WarningCount", "<16KB") = {}
    /\ SizedOnce(4, SizeCap + 1)
    /\ RowsOf(4) = {}
    /\ Cardinality(EventsOf(4, "ErrorCount", ">10MB")) = 1

\* ---- C33
\* C33: a read error that broke the loop is passed up: when NextTest
\* returned an error other than EOF, ProcessAllTests returns an error,
\* also when Flush succeeds. (The error returned is Flush's; when Flush
\* fails this holds for that reason.)
C33_ReadErrorPassedUp ==
    (pc = "done" /\ ReadErrors # {}) => ret.err # NoErr

\* ---- C34
NilEntries == {p \in Calls : arrived[p].kind = "nil"}

\* C34: ProcessAllTests calls Flush exactly once, after the last
\* ParseAndInsert call, whether the loop ended at the end of the archive
\* or on a read error; an entry without data is skipped without a call of
\* ParseAndInsert; and an error ParseAndInsert returns for a file leaves
\* the task in the loop.
C34_FlushOnce ==
    /\ [](/\ flushes = (IF pc = "done" THEN 1 ELSE 0)
          /\ nilData = Cardinality(NilEntries)
          /\ \A p \in NilEntries :
                 /\ \A i \in 1..Len(rows) : rows[i].call # p
                 /\ \A i \in 1..Len(events) : events[i].call # p)
    /\ [][/\ flushes > 0 => arrived' = arrived /\ rows' = rows /\ n' = n
          /\ (Arrival /\ Last(arrived').err # NoErr) =>
                 pc' = "loop" /\ flushes' = 0]_vars

\* The first file was refused by ParseAndInsert, the second entry had no
\* data, the third was parsed, the fourth read failed; the task flushed
\* once and returned.
C34_Witness ==
    /\ pc = "done" /\ flushes = 1
    /\ Len(arrived) = 4
    /\ arrived[1].kind = "file" /\ arrived[1].err # NoErr
    /\ arrived[2].kind = "nil"
    /\ arrived[3].kind = "file" /\ arrived[3].err = NoErr
    /\ arrived[4].kind = "error"

\* ---- C35
\* C35: ProcessAllTests terminates once the source has returned EOF or a
\* read error: after either the loop is not entered again and the function
\* returns, so a source that keeps failing cannot keep the loop running.
C35_Terminates ==
    (ReadErrors # {} \/ pc = "flush") ~> (pc = "done")

\* A file was parsed, the next read failed, and the task has returned.
C35_Witness ==
    /\ pc = "done"
    /\ Len(arrived) = 2
    /\ arrived[1].kind = "file"
    /\ ReadErrors = {2}
    /\ ret.files = 2

\* ---- C36
Returned == {p \in Procs : results.at[p] = "returned"}

\* C36: MustGetHTTPClient is a singleton under concurrency: in every
\* interleaving of calls the client is constructed at most once, every
\* call that returns has the fully constructed client, and all calls
\* return the same client, whatever their timeout argument.
C36_Singleton ==
    pc = "http" =>
        /\ results.constructions <= 1
        /\ \A p \in Returned : results.got[p] # NIL
        /\ \A p, q \in Returned : results.got[p] = results.got[q]

\* With a construction that succeeds the three parts hold.
C36_WhenBuilt ==
    (pc = "http" /\ \A p \in Procs : results.at[p] # "panicked") =>
        /\ results.constructions <= 1
        /\ \A p \in Returned :
               results.got[p] # NIL /\ results.got[p] = results.httpClient

\* ---- C37
\* The calls of the current bucket that brought a file of the suffix.
Bearers(suffix) ==
    {p \in Calls : /\ WellNamed(p)
                   /\ BucketStart(p) = bucket
                   /\ InfoOf(p).Suffix = suffix}

Latest(S) == CHOOSE p \in S : \A q \in S : q <= p

\* The slot holds the file the latest of the bearers brought, and nothing
\* if there is none.
HoldsLatest(slot, suffix) ==
    IF Bearers(suffix) = {} THEN slot = NIL
    ELSE /\ slot # NIL
         /\ slot.ptr = Latest(Bearers(suffix))
         /\ slot.fn = arrived[slot.ptr].name
         /\ slot.info.Suffix = suffix
         /\ slot.info.Time = n.timestamp

\* C37: in every reachable state the parser buffers at most one c2s file,
\* one s2c file and one meta record: each slot holds the latest file of
\* its suffix of the current bucket and nothing else; the c2s slot only
\* holds a c2s_snaplog file and the s2c slot only an s2c_snaplog file; and
\* the time field of every buffered data file is the context's timestamp.
C37_Slots ==
    /\ HoldsLatest(n.c2s, "c2s_snaplog")
    /\ HoldsLatest(n.s2c, "s2c_snaplog")
    /\ IF Bearers("meta") = {} THEN n.metaFile = NIL
       ELSE /\ n.metaFile # NIL
            /\ n.metaFile.ptr = Latest(Bearers("meta"))

\* After a bucket with a c2s and an s2c file, the next one has brought a
\* c2s file and its meta file: the s2c slot is empty again.
C37_Witness ==
    /\ Len(arrived) = 4
    /\ IsData(1) /\ IsData(2)
    /\ InfoOf(1).Suffix = "c2s_snaplog" /\ InfoOf(2).Suffix = "s2c_snaplog"
    /\ bucket = 3
    /\ n.timestamp = T2
    /\ n.c2s # NIL /\ n.c2s.ptr = 3
    /\ n.s2c = NIL
    /\ n.metaFile # NIL /\ n.metaFile.ptr = 4

\* ---- C38
\* The date field of a file name the grammar accepts.
DateOf(name) == ParseNDTFileName(name).info.Date

\* C38: buckets are keyed by the whole timestamp of the file name: no row
\* combines a data file with a meta file of another date, no two files of
\* different dates share a bucket, and a file whose date differs from the
\* one of the file before it starts a bucket, also when the time of day
\* is the same.
C38_DateKeyed ==
    /\ \A i \in 1..Len(rows) :
           rows[i].meta.ptr # 0 =>
               DateOf(rows[i].meta.TestName) = DateOf(rows[i].test_id)
    /\ \A p, q \in Calls :
           (WellNamed(p) /\ WellNamed(q) /\ BucketStart(p) = BucketStart(q))
               => InfoOf(p).Date = InfoOf(q).Date

\* ---- C39
\* C39: with an inserter that always succeeds ParseAndInsert terminates on
\* every input, malformed JSON included: every pass of the dec.More() loop
\* moves the decoder forward in the input, after a decode error too.
C39_ConsumesInput ==
    [][(pc = "disco" /\ results.failAt = 0 /\ results'.calls > results.calls)
           => results'.pos > results.pos]_vars

\* ---- C40
\* The value of the WorkerState gauge of a label after the first k events,
\* counted from its value when the task started.
Moves(label, dir, k) ==
    Cardinality({i \in 1..k : /\ events[i].m = "WorkerState"
                              /\ events[i].l = <<label, dir>>})

Gauge(label, k) == Moves(label, "inc", k) - Moves(label, "dec", k)

\* The events of one return path of processTest or getAndInsertValues.
PathTaken(label) == \E i \in 1..Len(events) : Last(events[i].l) = label

\* C40: the WorkerState gauges are balanced: the "ndt" and "parse" gauges
\* are never below their value at the start and are back at it after every
\* call of ParseAndInsert, whichever way processTest and getAndInsertValues
\* return (oversize, snaplog failure, snapshot failure, insert error,
\* success); the "task" gauge is one above its start while ProcessAllTests
\* runs and back at it when it has returned.
C40_GaugesBalanced ==
    /\ \A label \in {"ndt", "parse"} :
           /\ Gauge(label, Len(events)) = 0
           /\ \A k \in 0..Len(events) : Gauge(label, k) \in {0, 1}
    /\ \A k \in 0..Len(events) : Gauge("parse", k) <= Gauge("ndt", k)
    /\ workerTask = (IF pc = "done" THEN 0 ELSE 1)

\* One task went through the oversize rejection, a snaplog failure and a
\* final snapshot failure, and has returned.
C40_Witness ==
    /\ pc = "done" /\ workerTask = 0
    /\ PathTaken(">10MB")
    /\ PathTaken("snaplog failure")
    /\ PathTaken("final snapshot failure")
    /\ Moves("ndt", "inc", Len(events)) = 2
    /\ Moves("parse", "dec", Len(events)) = 2

\* One task had a row refused by the inserter and a row inserted.
C40_WitnessRows ==
    /\ pc = "done"
    /\ PathTaken("insert-err")
    /\ PathTaken("ok")

====
